---- MODULE Spec2Model ----
(***************************************************************************)
(* Deployment pipeline engine of the self-hosted deployer: the bounded     *)
(* admission queue (queueDeployment / processQueue), the deployment store  *)
(* (createDeployment / updateDeployment / appendStep), the step machine of *)
(* runDeployment with the release step's symlink rewrites, and             *)
(* rollbackProject.  Every action is one await-delimited segment of the    *)
(* JavaScript source: Node runs a segment to its next await without        *)
(* interleaving, and any other pending segment may run at an await.        *)
(***************************************************************************)
EXTENDS Integers, Sequences, FiniteSets, TLC

(***************************************************************************)
(* Bounds of the model.                                                    *)
(***************************************************************************)
\* queueDeployment calls in one behaviour; call c creates deployment c
MaxCalls == 3
\* queueDeployment calls in one behaviour when two workers run in parallel
ParallelCalls == 2
\* other events in one behaviour: rollbackProject calls, removals of a project
\* record, subprocess or filesystem calls that fail; and, counted apart, as many
\* PATCH requests that change a deployPath
MaxEvents == 1
\* largest MAX_CONCURRENT_DEPLOYS the environment may configure (0 = unset/NaN)
MaxConcurrentCfg == 2
\* largest MAX_QUEUE_SIZE the environment may configure (0 = unset/NaN)
MaxQueueCfg == 2
\* dry-run deployments requested in one behaviour
MaxDryRuns == 1

Projects == {"p1"}
\* call c of queueDeployment creates deployment c
DeploymentIds == 1..MaxCalls

\* a symlink that does not exist (readlink rejects); a release directory is
\* named by the deployment that created it
NoLink == 0
\* JavaScript null / undefined / '' for string-valued fields
Null == "null"

ADMIN_OWNER_ID == "admin"

StepNames == <<"sync", "install", "test", "build", "release", "nginx", "runtime">>
NumSteps == Len(StepNames)
ReleaseStep == CHOOSE i \in 1..NumSteps : StepNames[i] = "release"

Max(a, b) == IF a >= b THEN a ELSE b

(***************************************************************************)
(* Command templates (commandTemplates.js) and getTemplate.                *)
(***************************************************************************)
commandTemplates ==
  [ id \in {"node-app", "static-spa"} |->
      IF id = "node-app"
      THEN [installCommand |-> "npm ci", buildCommand |-> "npm run build",
            testCommand |-> Null, startCommand |-> "npm start"]
      ELSE [installCommand |-> "npm ci", buildCommand |-> "npm run build",
            testCommand |-> Null, startCommand |-> Null] ]

NoTemplate ==
  [installCommand |-> Null, buildCommand |-> Null, testCommand |-> Null,
   startCommand |-> Null]

hasTemplate(id) == id /= Null /\ id \in DOMAIN commandTemplates

getTemplate(id) == IF hasTemplate(id) THEN commandTemplates[id] ELSE NoTemplate

(***************************************************************************)
(* Secrets codec and env builder.  An encrypted value is the pair of the   *)
(* plaintext it was made from and whether its GCM tag still verifies; a    *)
(* tampered blob makes decryptSecret throw.                                *)
(***************************************************************************)
decryptFails(blob) == ~blob.tagOk

\* buildEnvMaps throws on a secret entry that has neither a decryptable
\* encryptedValue nor a value
envEntryThrows(entry) ==
  /\ entry.key /= Null
  /\ entry.isSecret
  /\ IF entry.encrypted THEN decryptFails(entry.blob) ELSE entry.value = Null

buildEnvMapsThrows(envEntries) ==
  \E i \in 1..Len(envEntries) : envEntryThrows(envEntries[i])

secretKeysOf(envEntries) ==
  { envEntries[i].key : i \in { j \in 1..Len(envEntries) :
        envEntries[j].key /= Null /\ envEntries[j].isSecret } }

(***************************************************************************)
(* Deploy paths.  A stored deployPath is one of                            *)
(*   "inside"  - NGINX_ROOT itself or below NGINX_ROOT + path.sep          *)
(*   "sibling" - has NGINX_ROOT as a string prefix but is not below it     *)
(*               (/var/www2), which the payload validator lets through     *)
(*   Null      - no deployPath on the record                               *)
(***************************************************************************)
ensureDeployPathWithinRootThrows(deployPath) == deployPath /= "inside"

(***************************************************************************)
(* Project records as stored in deploy-config.json.                        *)
(***************************************************************************)
GoodSecret == [key |-> "API_KEY", isSecret |-> TRUE, encrypted |-> TRUE,
               blob |-> [text |-> "s3cr3t", tagOk |-> TRUE], value |-> Null]
TamperedSecret == [key |-> "API_KEY", isSecret |-> TRUE, encrypted |-> TRUE,
               blob |-> [text |-> "s3cr3t", tagOk |-> FALSE], value |-> Null]

BaseProject ==
  [ repo |-> "https://github.com/o/r", branch |-> "main",
    ownerId |-> ADMIN_OWNER_ID, templateId |-> Null,
    buildCommand |-> "npm run build", installCommand |-> Null,
    testCommand |-> Null, startCommand |-> Null,
    runtime |-> "static", deployPath |-> "inside", buildOutput |-> "build",
    port |-> 0, runtimePort |-> 0,
    env |-> <<GoodSecret>>,
    lastDeploy |-> 0, lastCommit |-> Null ]

\* a port set on the record through the API (any positive integer passes)
ConfiguredPort == 8080

\* records a project can hold when the engine first sees it
InitialProjects ==
  { BaseProject,
    [BaseProject EXCEPT !.env = <<TamperedSecret>>],
    [BaseProject EXCEPT !.runtime = "node", !.startCommand = "node server.js"],
    [BaseProject EXCEPT !.runtime = "node", !.startCommand = "node server.js",
                        !.port = ConfiguredPort],
    [BaseProject EXCEPT !.ownerId = "u1", !.templateId = "retired-template"] }

(***************************************************************************)
(* State.                                                                  *)
(***************************************************************************)
VARIABLES
  config,      \* MAX_CONCURRENT_DEPLOYS and MAX_QUEUE_SIZE as read from the environment
  queue,       \* deployEngine: const queue = []
  active,      \* deployEngine: let active = 0
  projects,    \* deploy-config.json of each project that has one
  depFile,     \* deployments/<deploymentId>.json of each deployment that has one
  index,       \* .deployments-index.json: deploymentId -> projectId
  call,        \* each queueDeployment call: where it is, its arguments and locals
  worker,      \* each runDeployment call: where it is and its locals
  current,     \* <project>/current symlink: the release it points to, or NoLink
  previous,    \* <project>/previous symlink
  deployLink,  \* the symlink at the project's deployPath
  releases,    \* release directories that exist on disk
  spawned,     \* deployments for which runCommand has spawned a subprocess
  rollback,    \* each rollbackProject call in progress: where it is and its locals
  budget,      \* what the environment may still do: events and dry runs
  appended,    \* history: jobs in the order queue.push appended them
  dispatched,  \* history: jobs in the order processQueue shifted them
  finished,    \* history: deployments in the order their terminal status was written
  child,       \* what the running subprocess has printed and runCommand has not yet received
  log,         \* the text written to the deployment's log file by runCommand
  storeCall,   \* projectStore.updateProject calls in flight, by caller
  vault,       \* one use of the secrets codec: the key, the plaintext, the blob, the result
  observed,    \* history: what each release step found when it began, and whether a
               \* rollbackProject call has started since
  host         \* the nginx config of each project (the port it proxies to), and
               \* history: what each deployment did to the links, nginx and pm2

vars == <<config, queue, active, projects, depFile, index, call, worker, current,
          previous, deployLink, releases, spawned, rollback, budget,
          appended, dispatched, finished, child, log, storeCall, vault,
          observed, host>>

\* who calls projectStore.updateProject: the PATCH handler and runDeployment
StoreCallers == {"patch", "engine"}
IdleStoreCall == [pc |-> "idle", updates |-> << >>, next |-> << >>]

\* the secrets codec before any call: no plaintext, no blob, no result
IdleVault == [masterKey |-> TRUE, plaintext |-> << >>, raw |-> << >>, pc |-> "idle",
              altered |-> FALSE, result |-> [ok |-> FALSE, value |-> << >>]]

\* no nginx config written (or a static one: it proxies to no port), nothing done
IdleHost == [conf |-> [p \in Projects |-> 0], ops |-> [d \in DeploymentIds |-> << >>]]

\* what a release step that has not begun has found
NoSnapshot == [current |-> NoLink, previous |-> NoLink, dispatched |-> 0, alone |-> FALSE,
               rolledBack |-> FALSE]

engineVars == <<queue, active, worker, appended, dispatched>>
linkVars == <<current, previous, deployLink, releases>>
apartVars == <<child, log, storeCall, vault>>
quietVars == <<child, log, storeCall, vault, host>>
sideVars == <<child, log, storeCall, vault, observed, host>>

\* const MAX_CONCURRENT = Math.max(1, config.MAX_CONCURRENT_DEPLOYS || 1)
MAX_CONCURRENT ==
  Max(1, IF config.MAX_CONCURRENT_DEPLOYS = 0 THEN 1 ELSE config.MAX_CONCURRENT_DEPLOYS)

\* const MAX_QUEUE_SIZE = Math.max(1, config.MAX_QUEUE_SIZE || 50)
DefaultQueueSize == 50
MAX_QUEUE_SIZE ==
  Max(1, IF config.MAX_QUEUE_SIZE = 0 THEN DefaultQueueSize ELSE config.MAX_QUEUE_SIZE)

spend(b, what) == [b EXCEPT ![what] = b[what] - 1]

\* The environments the model runs the engine in: the two settings as read from
\* the environment (0: unset or not a number) and what happens in one behaviour.
Scenarios ==
  { \* default concurrency: calls overlap each other and the one worker
    [MAX_CONCURRENT_DEPLOYS |-> 0, MAX_QUEUE_SIZE |-> MaxQueueCfg,
     calls |-> MaxCalls, events |-> 0, dryRuns |-> 0, patches |-> 0],
    \* two workers in parallel
    [MAX_CONCURRENT_DEPLOYS |-> MaxConcurrentCfg, MAX_QUEUE_SIZE |-> 1,
     calls |-> ParallelCalls, events |-> 0, dryRuns |-> MaxDryRuns, patches |-> 0],
    \* one worker, with failures, rollbacks and changes of the project record
    [MAX_CONCURRENT_DEPLOYS |-> 1, MAX_QUEUE_SIZE |-> MaxQueueCfg,
     calls |-> ParallelCalls, events |-> MaxEvents, dryRuns |-> MaxDryRuns,
     patches |-> MaxEvents] }

IdleCall == [pc |-> "unused", projectId |-> "p1", dryRun |-> FALSE,
             index |-> << >>, error |-> Null]

IdleWorker == [pc |-> "idle", step |-> 0, projectId |-> "p1", dryRun |-> FALSE,
               project |-> BaseProject, previousTarget |-> NoLink,
               runtimePort |-> 0, envPort |-> 0, commitHash |-> Null,
               error |-> Null]

IdleRollback == [pc |-> "idle", previousTarget |-> NoLink, project |-> BaseProject,
                 result |-> Null]

Init ==
  /\ \E s \in Scenarios :
       /\ config = [MAX_CONCURRENT_DEPLOYS |-> s.MAX_CONCURRENT_DEPLOYS,
                    MAX_QUEUE_SIZE |-> s.MAX_QUEUE_SIZE]
       /\ budget = [calls |-> s.calls, events |-> s.events, dryRuns |-> s.dryRuns,
                    patches |-> s.patches]
  /\ queue = << >>
  /\ active = 0
  /\ projects \in [Projects -> InitialProjects]
  /\ depFile = << >>
  /\ index = << >>
  /\ call = [c \in DeploymentIds |-> IdleCall]
  /\ worker = [d \in DeploymentIds |-> IdleWorker]
  /\ current = [p \in Projects |-> NoLink]
  /\ previous = [p \in Projects |-> NoLink]
  /\ deployLink = [p \in Projects |-> NoLink]
  /\ releases = {}
  /\ spawned = {}
  /\ rollback = [p \in Projects |-> IdleRollback]
  /\ appended = << >>
  /\ dispatched = << >>
  /\ finished = << >>
  /\ child = << >>
  /\ log = << >>
  /\ storeCall = [caller \in StoreCallers |-> IdleStoreCall]
  /\ vault = IdleVault
  /\ observed = [d \in DeploymentIds |-> NoSnapshot]
  /\ host = IdleHost

(***************************************************************************)
(* Function helpers: a JSON object is a function on the keys it holds.     *)
(***************************************************************************)
Put(f, k, v) == [x \in (DOMAIN f) \cup {k} |-> IF x = k THEN v ELSE f[x]]
Drop(f, k) == [x \in (DOMAIN f) \ {k} |-> f[x]]

(***************************************************************************)
(* Env lists: the payload validator, the project store's formatting for    *)
(* storage and its normalisation on read.  A stored entry has the fields   *)
(* key, isSecret, encrypted (it carries an encryptedValue), blob (that     *)
(* encryptedValue) and value (Null: no value field).  An entry of a        *)
(* request has key, isSecret ("true", "false" or "absent") and value       *)
(* (Null: absent or empty).                                                *)
(***************************************************************************)
\* longest env list in a request
MaxEnvLen == 2
\* requests that change a project record in one behaviour of the project API
MaxPatches == 2

EnvKeys == {"API_KEY", "MODE"}
EnvValues == {"v1", "v2"}
EmptyString == ""
NoBlob == [text |-> Null, tagOk |-> FALSE]

\* encryptSecret: a fresh AES-256-GCM blob of the plaintext
encryptSecret(plaintext) == [text |-> plaintext, tagOk |-> TRUE]

RequestEntries ==
  [key : EnvKeys, isSecret : {"true", "false", "absent"}, value : EnvValues \cup {Null}]

RECURSIVE SeqsUpTo(_, _)
SeqsUpTo(S, n) ==
  IF n = 0 THEN {<< >>}
  ELSE LET shorter == SeqsUpTo(S, n - 1)
       IN shorter \cup {Append(q, x) : q \in {r \in shorter : Len(r) = n - 1}, x \in S}

\* the env lists a request can carry
EnvInputs == SeqsUpTo(RequestEntries, MaxEnvLen)

\* new Map(env.map((entry) => [entry.key, entry])): the last entry of a key wins
envMapOf(env) ==
  [k \in {env[i].key : i \in 1..Len(env)} |->
     env[CHOOSE i \in 1..Len(env) :
           env[i].key = k /\ \A j \in 1..Len(env) : env[j].key = k => j <= i]]

\* normalizeStoredEnv, for one entry: a secret entry keeps its encryptedValue
\* only, a plain entry its value only (null becomes '')
normalizeStoredEntry(entry) ==
  IF entry.isSecret
  THEN [key |-> entry.key, isSecret |-> TRUE, encrypted |-> entry.encrypted,
        blob |-> IF entry.encrypted THEN entry.blob ELSE NoBlob, value |-> Null]
  ELSE [key |-> entry.key, isSecret |-> FALSE, encrypted |-> FALSE, blob |-> NoBlob,
        value |-> IF entry.value = Null THEN EmptyString ELSE entry.value]

\* normalizeStoredEnv: entries without a key are dropped
normalizeStoredEnv(rawEnv) ==
  LET kept == SelectSeq(rawEnv, LAMBDA entry : entry.key /= Null)
  IN [i \in 1..Len(kept) |-> normalizeStoredEntry(kept[i])]

\* validateProjectPayload, the loop over payload.env from entry i on:
\* existingMap loses a key once an entry of the request has used it
RECURSIVE validateEnvFrom(_, _, _, _)
validateEnvFrom(existingMap, envInput, i, sanitizedEnv) ==
  IF i > Len(envInput) THEN [error |-> Null, env |-> sanitizedEnv]
  ELSE
    LET entry == envInput[i]
        hasPrev == entry.key \in DOMAIN existingMap
        prevIsSecret == hasPrev /\ existingMap[entry.key].isSecret
        prevEncrypted == hasPrev /\ existingMap[entry.key].encrypted
        isSecret == entry.isSecret = "true" \/ prevIsSecret
        rest == Drop(existingMap, entry.key)
    IN IF prevIsSecret /\ entry.isSecret = "false"
         THEN [error |-> "Cannot convert secret env to non-secret", env |-> << >>]
       ELSE IF isSecret /\ entry.value = Null /\ ~prevEncrypted
         THEN [error |-> "Secret env requires a value", env |-> << >>]
       ELSE IF ~isSecret /\ entry.value = Null
         THEN [error |-> "env value is required", env |-> << >>]
       ELSE validateEnvFrom(rest, envInput, i + 1,
              Append(sanitizedEnv, [key |-> entry.key, isSecret |-> isSecret,
                                    value |-> entry.value]))

\* validateProjectPayload for a payload with an env list: the error it throws,
\* or project.env
validateEnv(existingEnv, envInput) ==
  validateEnvFrom(envMapOf(existingEnv), envInput, 1, << >>)

\* formatEnvForStorage with a list of updates, from entry i on
RECURSIVE formatEnvFrom(_, _, _, _)
formatEnvFrom(existingMap, updates, i, next) ==
  IF i > Len(updates) THEN [error |-> Null, env |-> next]
  ELSE
    LET entry == updates[i]
        hasPrev == entry.key \in DOMAIN existingMap
        prevBlob == IF hasPrev /\ existingMap[entry.key].encrypted
                    THEN existingMap[entry.key].blob ELSE NoBlob
        encryptedValue == IF entry.value /= Null THEN encryptSecret(entry.value)
                          ELSE prevBlob
        rest == Drop(existingMap, entry.key)
    IN IF entry.isSecret
       THEN IF encryptedValue = NoBlob
            THEN [error |-> "Secret env requires a value", env |-> << >>]
            ELSE formatEnvFrom(rest, updates, i + 1,
                   Append(next, [key |-> entry.key, isSecret |-> TRUE, encrypted |-> TRUE,
                                 blob |-> encryptedValue, value |-> Null]))
       ELSE formatEnvFrom(rest, updates, i + 1,
              Append(next, [key |-> entry.key, isSecret |-> FALSE, encrypted |-> FALSE,
                            blob |-> NoBlob,
                            value |-> IF entry.value = Null THEN EmptyString
                                      ELSE entry.value]))

\* formatEnvForStorage that copies each update next to its new encryptedValue
\* ({ ...entry, encryptedValue }), so that a secret keeps its value field
formatEnvKeepingValue(existingEnv, hasUpdates, updates) ==
  IF ~hasUpdates THEN [error |-> Null, env |-> existingEnv]
  ELSE LET good == formatEnvFrom(envMapOf(existingEnv), updates, 1, << >>)
       IN IF good.error /= Null THEN good
          ELSE [error |-> Null,
                env |-> [i \in 1..Len(good.env) |->
                           [good.env[i] EXCEPT !.value = updates[i].value]]]

\* formatEnvForStorage that encrypts entry.value ?? '' for every secret entry,
\* whatever is stored under its key
formatEnvEncryptingAnew(existingEnv, hasUpdates, updates) ==
  IF ~hasUpdates THEN [error |-> Null, env |-> existingEnv]
  ELSE formatEnvFrom(envMapOf(existingEnv),
         [i \in 1..Len(updates) |->
            [updates[i] EXCEPT !.value = IF @ = Null THEN EmptyString ELSE @]],
         1, << >>)

\* formatEnvForStorage(existingEnv, updates): the copy of existingEnv when the
\* update has no env (updates === undefined), else the list to store or the
\* error thrown
formatEnvForStorage(existingEnv, hasUpdates, updates) ==
  IF ~hasUpdates THEN [error |-> Null, env |-> existingEnv]
  ELSE formatEnvFrom(envMapOf(existingEnv), updates, 1, << >>)

(***************************************************************************)
(* Deployment store (deploymentStore.js).                                  *)
(***************************************************************************)
\* createDeployment: baseRecord, with payload = { dryRun }
baseRecord(deploymentId, projectId, dryRun) ==
  [ deploymentId |-> deploymentId, projectId |-> projectId, status |-> "queued",
    startedAt |-> Null, finishedAt |-> Null, steps |-> << >>, commit |-> Null,
    error |-> Null, dryRun |-> dryRun ]

\* getDeployment: the record, found through the index; null without an index
\* entry or without a readable record file
hasDeployment(idx, files, deploymentId) ==
  deploymentId \in DOMAIN idx /\ deploymentId \in DOMAIN files

\* updateDeployment: merge the updates into the stored record; a silent no-op
\* when getDeployment returns null
updateDeployment(idx, files, deploymentId, updates) ==
  IF hasDeployment(idx, files, deploymentId)
  THEN [files EXCEPT ![deploymentId] =
          [f \in DOMAIN files[deploymentId] |->
             IF f \in DOMAIN updates THEN updates[f] ELSE files[deploymentId][f]]]
  ELSE files

\* appendStep: merge data into steps[stepName], then updateDeployment({steps})
appendStep(idx, files, deploymentId, stepName, data) ==
  IF hasDeployment(idx, files, deploymentId)
  THEN LET steps == files[deploymentId].steps
           existing == IF stepName \in DOMAIN steps THEN steps[stepName]
                       ELSE [status |-> Null, error |-> Null]
           merged == [f \in DOMAIN existing |->
                        IF f \in DOMAIN data THEN data[f] ELSE existing[f]]
       IN updateDeployment(idx, files, deploymentId,
                           [steps |-> Put(steps, stepName, merged)])
  ELSE files

(***************************************************************************)
(* processQueue, up to the first await of the runDeployment it starts:     *)
(* the queue and counter it leaves and the job it started, if any.         *)
(***************************************************************************)
\* processQueue without `if (active >= MAX_CONCURRENT) return`
processQueueWithoutLimit(q, a) ==
  IF q = << >> THEN [queue |-> q, active |-> a, started |-> << >>]
  ELSE [queue |-> Tail(q), active |-> a + 1, started |-> <<Head(q)>>]

\* processQueue with queue.pop() in the place of queue.shift()
processQueueTakingLast(q, a) ==
  IF a >= MAX_CONCURRENT THEN [queue |-> q, active |-> a, started |-> << >>]
  ELSE IF q = << >> THEN [queue |-> q, active |-> a, started |-> << >>]
  ELSE [queue |-> SubSeq(q, 1, Len(q) - 1), active |-> a + 1,
        started |-> <<q[Len(q)]>>]

processQueue(q, a) ==
  IF a >= MAX_CONCURRENT THEN [queue |-> q, active |-> a, started |-> << >>]
  ELSE IF q = << >> THEN [queue |-> q, active |-> a, started |-> << >>]
  ELSE [queue |-> Tail(q), active |-> a + 1, started |-> <<Head(q)>>]

\* the runDeployment calls after processQueue started the jobs in `started`
startJobs(w, started) ==
  [d \in DOMAIN w |->
     IF \E i \in 1..Len(started) : started[i].deploymentId = d
     THEN LET job == CHOOSE j \in {started[i] : i \in 1..Len(started)} :
                       j.deploymentId = d
          IN [IdleWorker EXCEPT !.pc = "start", !.projectId = job.projectId,
                                !.dryRun = job.dryRun]
     ELSE w[d]]

jobIds(jobs) == [i \in 1..Len(jobs) |-> jobs[i].deploymentId]

(***************************************************************************)
(* queueDeployment.                                                        *)
(***************************************************************************)
\* the checks of queueDeployment before createDeployment, in the code's order:
\* the error thrown, or Null when the call is admitted
admissionError(projectId, q, a) ==
  IF projectId \notin DOMAIN projects THEN "Project missing deployPath"
  ELSE LET project == projects[projectId] IN
    IF project.deployPath = Null THEN "Project missing deployPath"
    ELSE IF project.repo = Null \/ project.branch = Null
      THEN "Project configuration incomplete (repo and branch required)"
    ELSE IF project.ownerId = ADMIN_OWNER_ID /\ project.buildCommand = Null
      THEN "Project configuration incomplete (buildCommand required)"
    ELSE IF project.ownerId /= ADMIN_OWNER_ID /\ project.templateId = Null
      THEN "Project missing command template"
    ELSE IF ensureDeployPathWithinRootThrows(project.deployPath)
      THEN "Deploy path must be inside the nginx root"
    ELSE IF Len(q) + a >= MAX_QUEUE_SIZE
      THEN "Deployment queue is full. Try again later."
    ELSE Null

nextCall == CHOOSE c \in DeploymentIds :
              /\ call[c].pc = "unused"
              /\ \A b \in DeploymentIds : b < c => call[b].pc /= "unused"

\* queueDeployment from its start to the first await inside createDeployment
QueueDeployment(projectId, dryRun) ==
  /\ \E c \in DeploymentIds : call[c].pc = "unused"
  /\ budget.calls > 0
  /\ dryRun => budget.dryRuns > 0
  /\ budget' = IF dryRun THEN spend(spend(budget, "calls"), "dryRuns")
               ELSE spend(budget, "calls")
  /\ LET c == nextCall
         err == admissionError(projectId, queue, active)
     IN call' = [call EXCEPT ![c] =
                   [IdleCall EXCEPT !.pc = IF err = Null THEN "writeRecord" ELSE "rejected",
                                    !.projectId = projectId, !.dryRun = dryRun,
                                    !.error = err]]
  /\ UNCHANGED <<config, sideVars, projects, depFile, index, engineVars, linkVars, spawned,
                 rollback, finished>>

\* createDeployment: mkdir of the deployments directory and writeFile of the record
CreateDeploymentWriteRecord(c) ==
  /\ call[c].pc = "writeRecord"
  /\ \/ /\ depFile' = Put(depFile, c, baseRecord(c, call[c].projectId, call[c].dryRun))
        /\ call' = [call EXCEPT ![c].pc = "loadIndex"]
        /\ UNCHANGED budget
     \/ /\ budget.events > 0
        /\ budget' = spend(budget, "events")
        /\ call' = [call EXCEPT ![c].pc = "failed", ![c].error = "EIO: write failed"]
        /\ UNCHANGED depFile
  /\ UNCHANGED <<config, sideVars, projects, index, engineVars, linkVars, spawned,
                 rollback, finished>>

\* createDeployment: const index = await loadIndex()
CreateDeploymentLoadIndex(c) ==
  /\ call[c].pc = "loadIndex"
  /\ call' = [call EXCEPT ![c].pc = "saveIndex", ![c].index = index]
  /\ UNCHANGED <<config, sideVars, projects, depFile, index, engineVars, linkVars, spawned,
                 rollback, budget, finished>>

\* createDeployment: index[deploymentId] = { projectId }; await saveIndex(index);
\* then queueDeployment's queue.push, processQueue() and return
CreateDeploymentSaveIndex(c) ==
  /\ call[c].pc = "saveIndex"
  /\ \/ LET job == [deploymentId |-> c, projectId |-> call[c].projectId,
                    dryRun |-> call[c].dryRun]
            next == processQueue(Append(queue, job), active)
        IN /\ index' = Put(call[c].index, c, call[c].projectId)
           /\ queue' = next.queue
           /\ active' = next.active
           /\ worker' = startJobs(worker, next.started)
           /\ appended' = Append(appended, c)
           /\ dispatched' = dispatched \o jobIds(next.started)
           /\ call' = [call EXCEPT ![c].pc = "queued"]
           /\ UNCHANGED budget
     \/ /\ budget.events > 0
        /\ budget' = spend(budget, "events")
        /\ call' = [call EXCEPT ![c].pc = "failed", ![c].error = "EIO: write failed"]
        /\ UNCHANGED <<index, engineVars>>
  /\ UNCHANGED <<config, sideVars, projects, depFile, linkVars, spawned, rollback, finished>>

(***************************************************************************)
(* runDeployment.                                                          *)
(***************************************************************************)
\* a finally block that only gives the slot back
processQueueFinallyWithoutDispatch(q, a) ==
  [queue |-> q, active |-> a - 1, started |-> << >>]

\* processQueue's finally block: active -= 1; if (queue.length > 0) processQueue()
processQueueFinally(q, a) ==
  IF Len(q) > 0 THEN processQueue(q, a - 1)
  ELSE [queue |-> q, active |-> a - 1, started |-> << >>]

\* the worker returns (or its promise rejects) and processQueue's finally runs
WorkerLeaves(d, endPc, err) ==
  LET next == processQueueFinally(queue, active)
  IN /\ queue' = next.queue
     /\ active' = next.active
     /\ worker' = startJobs([worker EXCEPT ![d].pc = endPc, ![d].error = err],
                            next.started)
     /\ dispatched' = dispatched \o jobIds(next.started)
     /\ UNCHANGED appended

\* the first write of a terminal status to a record puts it into `finished`
noteFinished(fin, idx, files, d) ==
  IF hasDeployment(idx, files, d) /\ \A i \in 1..Len(fin) : fin[i] /= d
  THEN Append(fin, d) ELSE fin

\* lines 128-130: writeLog, then updateDeployment({ status: 'running', startedAt })
RunDeploymentStart(d) ==
  /\ worker[d].pc = "start"
  /\ depFile' = updateDeployment(index, depFile, d,
                   [status |-> "running", startedAt |-> "startTime"])
  /\ worker' = [worker EXCEPT ![d].pc = "load"]
  /\ UNCHANGED <<config, sideVars, queue, active, projects, index, call, linkVars, spawned,
                 rollback, budget, appended, dispatched, finished>>

\* lines 131-150, which are outside the try block: the error they throw, if any
preStepError(projectId) ==
  IF projectId \notin DOMAIN projects
    THEN "Cannot read properties of null (reading 'deployPath')"
  ELSE LET project == projects[projectId] IN
    IF ensureDeployPathWithinRootThrows(project.deployPath)
      THEN "Deploy path must be inside the nginx root"
    ELSE IF project.ownerId /= ADMIN_OWNER_ID /\ ~hasTemplate(project.templateId)
      THEN "Command template missing or invalid for this project"
    ELSE IF buildEnvMapsThrows(project.env)
      THEN "Failed to decrypt secrets"
    ELSE Null

\* Math.floor(Math.random() * 1000), at its two ends
RandomOffsets == {0, 999}
PortBase == 4000

\* lines 152-165: the runtimePort the pipeline uses
runtimePortOf(project, random) ==
  IF project.runtime = "node"
  THEN (IF project.runtimePort /= 0 THEN project.runtimePort
        ELSE IF project.port /= 0 THEN project.port
        ELSE PortBase + random)
  ELSE IF project.runtimePort /= 0 THEN project.runtimePort
  ELSE project.port

\* lines 156-158: the worker's copy of the project, with a fresh runtimePort put on it
projectWithPort(project, dryRun, port) ==
  IF project.runtime = "node" /\ project.runtimePort = 0 /\ ~dryRun
  THEN [project EXCEPT !.runtimePort = port]
  ELSE project

\* lines 159-170: env.PORT passed to the install, test and build commands
envPortOf(project, port) ==
  IF project.runtimePort /= 0 THEN project.runtimePort
  ELSE IF project.port /= 0 THEN project.port
  ELSE IF project.runtime = "node" THEN port
  ELSE 0

\* lines 131-170: getProject, the checks before the try block, the env and the port
RunDeploymentLoad(d) ==
  /\ worker[d].pc = "load"
  /\ LET err == preStepError(worker[d].projectId) IN
     IF err /= Null
     THEN WorkerLeaves(d, "threw", err)
     ELSE \E random \in RandomOffsets :
            LET stored == projects[worker[d].projectId]
                port == runtimePortOf(stored, random)
                project == projectWithPort(stored, worker[d].dryRun, port)
            IN /\ worker' = [worker EXCEPT ![d].pc = "stepBegin", ![d].step = 1,
                                           ![d].project = project,
                                           ![d].runtimePort = port,
                                           ![d].envPort = envPortOf(project, port)]
               /\ UNCHANGED <<queue, active, appended, dispatched>>
  /\ UNCHANGED <<config, sideVars, projects, depFile, index, call, linkVars, spawned,
                 rollback, budget, finished>>

\* history: the links as the step that begins finds them, how many jobs have been
\* dispatched so far, whether no other runDeployment of the project and no
\* rollbackProject of it is in progress, and whether a rollbackProject of it is
releaseSnapshot(d) ==
  LET p == worker[d].projectId
  IN [current |-> current[p], previous |-> previous[p], dispatched |-> Len(dispatched),
      alone |-> /\ rollback[p].pc = "idle"
                /\ \A other \in DeploymentIds \ {d} :
                     worker[other].pc \in {"idle", "returned", "threw"}
                       \/ worker[other].projectId /= p,
      rolledBack |-> rollback[p].pc /= "idle"]

\* runStep: appendStep(deploymentId, name, { status: 'running', startedAt })
StepBegin(d) ==
  /\ worker[d].pc = "stepBegin"
  /\ depFile' = appendStep(index, depFile, d, StepNames[worker[d].step],
                           [status |-> "running"])
  /\ worker' = [worker EXCEPT ![d].pc = "stepBody"]
  /\ observed' = IF worker[d].step = ReleaseStep
                  THEN [observed EXCEPT ![d] = releaseSnapshot(d)] ELSE observed
  /\ UNCHANGED <<config, quietVars, queue, active, projects, index, call, linkVars, spawned,
                 rollback, budget, appended, dispatched, finished>>

\* runStep after fn() resolved: appendStep success, then the next step or finalization
stepSucceeds(w) ==
  IF w.step < NumSteps
  THEN [w EXCEPT !.pc = "stepBegin", !.step = w.step + 1]
  ELSE [w EXCEPT !.pc = "finish"]

\* runStep after fn() threw: appendStep failed with error.message, rethrown to the catch
stepFails(w, err) == [w EXCEPT !.pc = "catch", !.error = err]

StepSuccess(d, w) ==
  /\ depFile' = appendStep(index, depFile, d, StepNames[worker[d].step],
                           [status |-> "success"])
  /\ worker' = [worker EXCEPT ![d] = stepSucceeds(w)]

StepFailure(d, err) ==
  /\ depFile' = appendStep(index, depFile, d, StepNames[worker[d].step],
                           [status |-> "failed", error |-> err])
  /\ worker' = [worker EXCEPT ![d] = stepFails(worker[d], err)]

\* the command a step runs through runShellCommand, or Null when it skips
installCommandOf(project, repoHasPackageJson) ==
  IF project.ownerId = ADMIN_OWNER_ID
  THEN (IF project.installCommand /= Null THEN project.installCommand
        ELSE IF repoHasPackageJson THEN "npm install --production" ELSE Null)
  ELSE getTemplate(project.templateId).installCommand

testCommandOf(project) ==
  IF project.ownerId = ADMIN_OWNER_ID THEN project.testCommand
  ELSE getTemplate(project.templateId).testCommand

buildCommandOf(project) ==
  IF project.ownerId = ADMIN_OWNER_ID
  THEN (IF project.buildCommand /= Null THEN project.buildCommand ELSE "npm run build")
  ELSE getTemplate(project.templateId).buildCommand

startCommandOf(project) ==
  IF project.ownerId = ADMIN_OWNER_ID THEN project.startCommand
  ELSE getTemplate(project.templateId).startCommand

CommandFailed == "Command exited with code 1"

\* runCommand: in dry-run it resolves without spawning; otherwise it spawns and
\* resolves on exit code 0 and rejects on any other
commandOutcomes(dryRun, canFail) ==
  IF dryRun THEN {[spawn |-> FALSE, error |-> Null]}
  ELSE {[spawn |-> TRUE, error |-> Null]}
       \cup (IF canFail THEN {[spawn |-> TRUE, error |-> CommandFailed]} ELSE {})

skipOutcome == {[spawn |-> FALSE, error |-> Null]}
throwOutcome(err) == {[spawn |-> FALSE, error |-> err]}

\* sync, install, test, build, nginx and runtime: what the step's function can do
stepOutcomes(name, w, repoHasPackageJson, currentLink, canFail) ==
  CASE name = "sync" -> commandOutcomes(w.dryRun, canFail)
    [] name = "install" ->
         IF installCommandOf(w.project, repoHasPackageJson) /= Null
         THEN commandOutcomes(w.dryRun, canFail) ELSE skipOutcome
    [] name = "test" ->
         IF testCommandOf(w.project) /= Null
         THEN commandOutcomes(w.dryRun, canFail) ELSE skipOutcome
    [] name = "build" ->
         IF buildCommandOf(w.project) = Null
         THEN throwOutcome("Build command is not configured for this project/template")
         ELSE commandOutcomes(w.dryRun, canFail)
    [] name = "nginx" ->
         IF w.project.runtime = "node" /\ w.runtimePort = 0
         THEN throwOutcome("runtimePort is required for node runtime")
         ELSE commandOutcomes(w.dryRun, canFail)
    [] name = "runtime" ->
         IF w.project.runtime /= "node" THEN skipOutcome
         ELSE IF startCommandOf(w.project) = Null
           THEN throwOutcome("startCommand required for node runtime")
         ELSE IF ~w.dryRun /\ currentLink = NoLink
           THEN throwOutcome("ENOENT: no such file or directory, readlink")
         ELSE commandOutcomes(w.dryRun, canFail)
    [] OTHER -> skipOutcome

\* git rev-parse HEAD: the commit recorded by the sync step ('' in dry-run)
commitOf(dryRun) == IF dryRun THEN "" ELSE "4f2a9c1"

\* one thing done to the host, with the port it carries (0: none) and the exit
\* code of the subprocess that did it (0 also when there was none)
hostOp(op, port, code) == [op |-> op, port |-> port, code |-> code]

\* lines 290-296: the options the nginx step passes to nginxManager.writeConfig
nginxOptionsOf(w) == [runtime |-> w.project.runtime, runtimePort |-> w.runtimePort]

\* writeConfig: renderProxyConfig's proxy_pass port for the node runtime, none
\* in renderStaticConfig
proxyPortOf(options) == IF options.runtime = "node" THEN options.runtimePort ELSE 0

\* line 310: const runtimeEnvVars = { ...env, PORT: runtimePort }
runtimeEnvPort(w) == w.runtimePort

\* the ways a writeConfig call that spawns can end (for the runtime step: pm2
\* start exits with 0 for an ending without failure and with 1 otherwise)
writeConfigEndings(error) ==
  IF error = Null THEN {"reloaded"} ELSE {"testFailed", "reloadFailed"}

\* a writeConfig that reloads whatever the test said
writeConfigOpsAlwaysReload(options, ending) ==
  <<hostOp("write", proxyPortOf(options), 0),
    hostOp("test", 0, IF ending = "testFailed" THEN 1 ELSE 0),
    hostOp("reload", 0, IF ending = "reloadFailed" THEN 1 ELSE 0)>>

\* writeConfig outside dry-run: writeFile, then nginx -t, then systemctl reload
\* nginx unless the test rejected
writeConfigOps(options, ending) ==
  <<hostOp("write", proxyPortOf(options), 0),
    hostOp("test", 0, IF ending = "testFailed" THEN 1 ELSE 0)>>
    \o (IF ending = "testFailed" THEN << >>
        ELSE <<hostOp("reload", 0, IF ending = "reloadFailed" THEN 1 ELSE 0)>>)

\* what the nginx and the runtime step do to the host when they spawn
hostAfterStep(d, w, name, ending) ==
  IF name = "nginx"
  THEN [conf |-> [host.conf EXCEPT ![w.projectId] = proxyPortOf(nginxOptionsOf(w))],
        ops |-> [host.ops EXCEPT ![d] = @ \o writeConfigOps(nginxOptionsOf(w), ending)]]
  ELSE IF name = "runtime"
  THEN [host EXCEPT !.ops[d] = Append(@, hostOp("start", runtimeEnvPort(w),
                                                IF ending = "reloaded" THEN 0 ELSE 1))]
  ELSE host

\* the function of a step other than release, with runStep's record of its outcome
StepBody(d) ==
  /\ worker[d].pc = "stepBody"
  /\ worker[d].step /= ReleaseStep
  /\ \E repoHasPackageJson \in BOOLEAN :
     \E out \in stepOutcomes(StepNames[worker[d].step], worker[d], repoHasPackageJson,
                             current[worker[d].projectId], budget.events > 0) :
       /\ spawned' = IF out.spawn THEN spawned \cup {d} ELSE spawned
       /\ IF out.spawn
          THEN \E ending \in writeConfigEndings(out.error) :
                 host' = hostAfterStep(d, worker[d], StepNames[worker[d].step], ending)
          ELSE host' = host
       /\ budget' = IF out.error = CommandFailed THEN spend(budget, "events")
                    ELSE budget
       /\ IF out.error /= Null
          THEN StepFailure(d, out.error)
          ELSE IF StepNames[worker[d].step] = "sync"
          THEN LET commit == commitOf(worker[d].dryRun)
                   files == updateDeployment(index, depFile, d, [commit |-> commit])
               IN /\ depFile' = appendStep(index, files, d, "sync", [status |-> "success"])
                  /\ worker' = [worker EXCEPT
                                  ![d] = stepSucceeds([worker[d] EXCEPT !.commitHash = commit])]
          ELSE StepSuccess(d, worker[d])
  /\ UNCHANGED <<config, apartVars, observed, queue, active, projects, index, call, linkVars,
                 rollback, appended, dispatched, finished>>

(***************************************************************************)
(* The release step (lines 253-288), one action per awaited filesystem     *)
(* call that another worker or a rollback can observe.                     *)
(***************************************************************************)
AtRelease(d, pc) ==
  /\ worker[d].pc = pc
  /\ worker[d].step = ReleaseStep

othersUnchangedByRelease ==
  UNCHANGED <<config, sideVars, queue, active, projects, index, call, spawned, rollback,
              appended, dispatched, finished>>

othersUnchangedByLink ==
  UNCHANGED <<config, apartVars, observed, queue, active, projects, index, call, spawned,
              rollback, appended, dispatched, finished>>

\* history: deployment d has made a link point to its release
linked(d, op) == [host EXCEPT !.ops[d] = Append(@, hostOp(op, 0, 0))]

\* fs.symlink(target, link): the link's new target; EEXIST when the link exists
symlinkFails(link) == link /= NoLink

\* a release step that makes the release directory before it checks the output
ReleaseCopyBeforeCheck(d) ==
  /\ AtRelease(d, "stepBody")
  /\ IF worker[d].dryRun
     THEN /\ worker' = [worker EXCEPT ![d].pc = "relReadCurrent"]
          /\ UNCHANGED <<depFile, releases, budget>>
     ELSE \/ /\ budget.events > 0
             /\ budget' = spend(budget, "events")
             /\ StepFailure(d, "Build output directory not found")
             /\ releases' = releases \cup {d}
          \/ /\ releases' = releases \cup {d}
             /\ worker' = [worker EXCEPT ![d].pc = "relReadCurrent"]
             /\ UNCHANGED <<depFile, budget>>
  /\ UNCHANGED <<current, previous, deployLink>>
  /\ othersUnchangedByRelease

\* lines 254-266: the output directory check, then mkdir and cp of the release
ReleaseCopy(d) ==
  /\ AtRelease(d, "stepBody")
  /\ IF worker[d].dryRun
     THEN /\ worker' = [worker EXCEPT ![d].pc = "relReadCurrent"]
          /\ UNCHANGED <<depFile, releases, budget>>
     ELSE \/ /\ budget.events > 0
             /\ budget' = spend(budget, "events")
             /\ StepFailure(d, "Build output directory not found")
             /\ UNCHANGED releases
          \/ /\ releases' = releases \cup {d}
             /\ worker' = [worker EXCEPT ![d].pc = "relReadCurrent"]
             /\ UNCHANGED <<depFile, budget>>
  /\ UNCHANGED <<current, previous, deployLink>>
  /\ othersUnchangedByRelease

\* the segment that follows readlink(currentLink) in the release step
afterReadCurrent(w, target) ==
  IF target /= NoLink THEN [w EXCEPT !.pc = "relRmPrevious", !.previousTarget = target]
  ELSE [w EXCEPT !.pc = "relRmCurrent", !.previousTarget = target]

\* lines 270-275: previousTarget = await fsp.readlink(currentLink), null on error;
\* a dry run returns from the step here
ReleaseReadCurrent(d) ==
  /\ AtRelease(d, "relReadCurrent")
  /\ LET p == worker[d].projectId IN
     IF worker[d].dryRun
     THEN StepSuccess(d, [worker[d] EXCEPT !.previousTarget = current[p]])
     ELSE /\ worker' = [worker EXCEPT ![d] = afterReadCurrent(worker[d], current[p])]
          /\ UNCHANGED depFile
  /\ UNCHANGED linkVars
  /\ UNCHANGED budget
  /\ othersUnchangedByRelease

\* line 278: await fsp.rm(previousLink, { force: true })
ReleaseRmPrevious(d) ==
  /\ AtRelease(d, "relRmPrevious")
  /\ previous' = [previous EXCEPT ![worker[d].projectId] = NoLink]
  /\ worker' = [worker EXCEPT ![d].pc = "relLinkPrevious"]
  /\ UNCHANGED <<depFile, current, deployLink, releases>>
  /\ UNCHANGED budget
  /\ othersUnchangedByRelease

\* a release step that leaves the previous link removed
ReleaseLinkPreviousSkipped(d) ==
  /\ AtRelease(d, "relLinkPrevious")
  /\ worker' = [worker EXCEPT ![d].pc = "relRmCurrent"]
  /\ UNCHANGED <<depFile, current, previous, deployLink, releases>>
  /\ UNCHANGED budget
  /\ othersUnchangedByRelease

\* line 279: await fsp.symlink(previousTarget, previousLink).catch(() => {})
ReleaseLinkPrevious(d) ==
  /\ AtRelease(d, "relLinkPrevious")
  /\ LET p == worker[d].projectId IN
     previous' = IF symlinkFails(previous[p]) THEN previous
                 ELSE [previous EXCEPT ![p] = worker[d].previousTarget]
  /\ worker' = [worker EXCEPT ![d].pc = "relRmCurrent"]
  /\ UNCHANGED <<depFile, current, deployLink, releases>>
  /\ UNCHANGED budget
  /\ othersUnchangedByRelease

\* line 281: await fsp.rm(currentLink, { force: true })
ReleaseRmCurrent(d) ==
  /\ AtRelease(d, "relRmCurrent")
  /\ current' = [current EXCEPT ![worker[d].projectId] = NoLink]
  /\ worker' = [worker EXCEPT ![d].pc = "relLinkCurrent"]
  /\ UNCHANGED <<depFile, previous, deployLink, releases>>
  /\ UNCHANGED budget
  /\ othersUnchangedByRelease

\* line 282: await fsp.symlink(releasePath, currentLink)
ReleaseLinkCurrent(d) ==
  /\ AtRelease(d, "relLinkCurrent")
  /\ LET p == worker[d].projectId IN
     IF symlinkFails(current[p])
     THEN /\ StepFailure(d, "EEXIST: file already exists, symlink")
          /\ UNCHANGED <<current, host>>
     ELSE /\ current' = [current EXCEPT ![p] = d]
          /\ host' = linked(d, "current")
          /\ worker' = [worker EXCEPT ![d].pc = "relRmDeploy"]
          /\ UNCHANGED depFile
  /\ UNCHANGED <<previous, deployLink, releases>>
  /\ UNCHANGED budget
  /\ othersUnchangedByLink

\* lines 283-284: mkdir of the parent, then removePath(safeDeployPath)
ReleaseRmDeploy(d) ==
  /\ AtRelease(d, "relRmDeploy")
  /\ deployLink' = [deployLink EXCEPT ![worker[d].projectId] = NoLink]
  /\ worker' = [worker EXCEPT ![d].pc = "relLinkDeploy"]
  /\ UNCHANGED <<depFile, current, previous, releases>>
  /\ UNCHANGED budget
  /\ othersUnchangedByRelease

\* line 285: await fsp.symlink(releasePath, safeDeployPath); the step returns
ReleaseLinkDeploy(d) ==
  /\ AtRelease(d, "relLinkDeploy")
  /\ LET p == worker[d].projectId IN
     IF symlinkFails(deployLink[p])
     THEN /\ StepFailure(d, "EEXIST: file already exists, symlink")
          /\ UNCHANGED <<deployLink, host>>
     ELSE /\ deployLink' = [deployLink EXCEPT ![p] = d]
          /\ host' = linked(d, "deployPath")
          /\ StepSuccess(d, worker[d])
  /\ UNCHANGED <<current, previous, releases>>
  /\ UNCHANGED budget
  /\ othersUnchangedByLink

(***************************************************************************)
(* Finalization (lines 325-341).                                           *)
(***************************************************************************)
\* lines 325-326: updateDeployment({ status: 'success', finishedAt: finishTime })
Finish(d) ==
  /\ worker[d].pc = "finish"
  /\ depFile' = updateDeployment(index, depFile, d,
                   [status |-> "success", finishedAt |-> "finishTime"])
  /\ finished' = noteFinished(finished, index, depFile, d)
  /\ worker' = [worker EXCEPT ![d].pc = "updateProject"]
  /\ UNCHANGED <<config, sideVars, queue, active, projects, index, call, linkVars, spawned,
                 rollback, budget, appended, dispatched>>

\* lines 327-330: the update the engine sends to the project store
projectUpdateOf(d, w) ==
  [lastDeploy |-> d, lastCommit |-> w.commitHash,
   runtimePort |-> w.project.runtimePort]

\* projectStore.updateProject: existing record merged with the updates
\* (runtimePort is part of the update only when the worker's copy has one)
\* and the env of the normalised read copied by formatEnvForStorage
mergeProject(existing, update) ==
  [existing EXCEPT !.lastDeploy = update.lastDeploy,
                   !.lastCommit = update.lastCommit,
                   !.runtimePort = IF update.runtimePort /= 0 THEN update.runtimePort
                                   ELSE existing.runtimePort,
                   !.env = formatEnvForStorage(normalizeStoredEnv(existing.env),
                                               FALSE, << >>).env]

\* line 331: await projectStore.updateProject(projectId, projectUpdate), inside
\* the try block: it throws 'Project not found' when getProject returns null,
\* and writeProject's writeFile can reject
UpdateProjectAfterDeploy(d) ==
  /\ worker[d].pc = "updateProject"
  /\ LET p == worker[d].projectId IN
     IF p \in DOMAIN projects
     THEN \/ /\ projects' = [projects EXCEPT
                               ![p] = mergeProject(projects[p], projectUpdateOf(d, worker[d]))]
             /\ worker' = [worker EXCEPT ![d].pc = "close"]
             /\ UNCHANGED budget
          \/ /\ budget.events > 0
             /\ budget' = spend(budget, "events")
             /\ worker' = [worker EXCEPT ![d].pc = "catch",
                                         ![d].error = "EIO: write failed"]
             /\ UNCHANGED projects
     ELSE /\ worker' = [worker EXCEPT ![d].pc = "catch", ![d].error = "Project not found"]
          /\ UNCHANGED <<projects, budget>>
  /\ UNCHANGED <<config, sideVars, queue, active, depFile, index, call, linkVars, spawned,
                 rollback, appended, dispatched, finished>>

\* lines 332-338: the catch handler
Catch(d) ==
  /\ worker[d].pc = "catch"
  /\ depFile' = updateDeployment(index, depFile, d,
                   [status |-> "failed", finishedAt |-> "catchTime",
                    error |-> worker[d].error])
  /\ finished' = noteFinished(finished, index, depFile, d)
  /\ worker' = [worker EXCEPT ![d].pc = "close"]
  /\ UNCHANGED <<config, sideVars, queue, active, projects, index, call, linkVars, spawned,
                 rollback, budget, appended, dispatched>>

\* lines 339-341 and processQueue's finally: the log stream is closed,
\* runDeployment returns, active is decremented and the next job is started
Close(d) ==
  /\ worker[d].pc = "close"
  /\ WorkerLeaves(d, "returned", worker[d].error)
  /\ UNCHANGED <<config, sideVars, projects, depFile, index, call, linkVars, spawned,
                 rollback, budget, finished>>

(***************************************************************************)
(* rollbackProject (lines 344-370).                                        *)
(***************************************************************************)
othersUnchangedByRollback ==
  UNCHANGED <<config, sideVars, projects, depFile, index, call, engineVars, releases, spawned,
              finished>>

\* history: a rollbackProject call of project p starts while these release steps run
rollbackSeen(p) ==
  [d \in DeploymentIds |->
     IF worker[d].projectId = p /\ worker[d].step = ReleaseStep
     THEN [observed[d] EXCEPT !.alone = FALSE, !.rolledBack = TRUE] ELSE observed[d]]

rollbackStartUnchanged ==
  UNCHANGED <<config, quietVars, projects, depFile, index, call, engineVars, releases,
              spawned, finished>>

RollbackAt(p, pc) == rollback[p].pc = pc

rollbackThrows(r, err) == [r EXCEPT !.pc = "idle", !.result = err]

\* rollbackProject whose catch around readlink(previousLink) swallows the error
\* and goes on with previousTarget = null
RollbackStartWithoutThrow(p) ==
  /\ RollbackAt(p, "idle")
  /\ budget.events > 0
  /\ budget' = spend(budget, "events")
  /\ rollback' = [rollback EXCEPT ![p] =
       [IdleRollback EXCEPT !.pc = "rmCurrent", !.previousTarget = previous[p]]]
  /\ UNCHANGED <<current, previous, deployLink>>
  /\ observed' = rollbackSeen(p)
  /\ rollbackStartUnchanged

\* lines 345-352: previousTarget = await fsp.readlink(previousLink), or throw
RollbackStart(p) ==
  /\ RollbackAt(p, "idle")
  /\ budget.events > 0
  /\ budget' = spend(budget, "events")
  /\ rollback' = [rollback EXCEPT ![p] =
       IF previous[p] = NoLink
       THEN rollbackThrows(IdleRollback, "No previous release to roll back to")
       ELSE [IdleRollback EXCEPT !.pc = "rmCurrent", !.previousTarget = previous[p]]]
  /\ UNCHANGED <<current, previous, deployLink>>
  /\ observed' = rollbackSeen(p)
  /\ rollbackStartUnchanged

\* line 353: await fsp.rm(currentLink, { force: true })
RollbackRmCurrent(p) ==
  /\ RollbackAt(p, "rmCurrent")
  /\ current' = [current EXCEPT ![p] = NoLink]
  /\ rollback' = [rollback EXCEPT ![p].pc = "linkCurrent"]
  /\ UNCHANGED <<previous, deployLink, budget>>
  /\ othersUnchangedByRollback

\* line 354: await fsp.symlink(previousTarget, currentLink)
RollbackLinkCurrent(p) ==
  /\ RollbackAt(p, "linkCurrent")
  /\ IF symlinkFails(current[p])
     THEN /\ rollback' = [rollback EXCEPT
                ![p] = rollbackThrows(rollback[p], "EEXIST: file already exists, symlink")]
          /\ UNCHANGED current
     ELSE /\ current' = [current EXCEPT ![p] = rollback[p].previousTarget]
          /\ rollback' = [rollback EXCEPT ![p].pc = "loadProject"]
  /\ UNCHANGED <<previous, deployLink, budget>>
  /\ othersUnchangedByRollback

\* rollbackProject without the call of ensureDeployPathWithinRoot
rollbackProjectErrorWithoutRoot(p) ==
  IF p \notin DOMAIN projects THEN "Project not found"
  ELSE IF projects[p].deployPath = Null THEN "Project missing deployPath"
  ELSE Null

\* lines 355-358: the error thrown after getProject, if any
rollbackProjectError(p) ==
  IF p \notin DOMAIN projects THEN "Project not found"
  ELSE IF projects[p].deployPath = Null THEN "Project missing deployPath"
  ELSE IF ensureDeployPathWithinRootThrows(projects[p].deployPath)
    THEN "Deploy path must be inside the nginx root"
  ELSE Null

\* lines 355-358: getProject and the re-verification of its deployPath
RollbackLoadProject(p) ==
  /\ RollbackAt(p, "loadProject")
  /\ LET err == rollbackProjectError(p) IN
     rollback' = [rollback EXCEPT ![p] =
       IF err /= Null THEN rollbackThrows(rollback[p], err)
       ELSE [rollback[p] EXCEPT !.pc = "rmDeploy", !.project = projects[p]]]
  /\ UNCHANGED <<current, previous, deployLink, budget>>
  /\ othersUnchangedByRollback

\* line 359: await removePath(safeDeployPath)
RollbackRmDeploy(p) ==
  /\ RollbackAt(p, "rmDeploy")
  /\ deployLink' = [deployLink EXCEPT ![p] = NoLink]
  /\ rollback' = [rollback EXCEPT ![p].pc = "linkDeploy"]
  /\ UNCHANGED <<current, previous, budget>>
  /\ othersUnchangedByRollback

\* line 360: await fsp.symlink(previousTarget, safeDeployPath)
RollbackLinkDeploy(p) ==
  /\ RollbackAt(p, "linkDeploy")
  /\ IF symlinkFails(deployLink[p])
     THEN /\ rollback' = [rollback EXCEPT
                ![p] = rollbackThrows(rollback[p], "EEXIST: file already exists, symlink")]
          /\ UNCHANGED deployLink
     ELSE /\ deployLink' = [deployLink EXCEPT ![p] = rollback[p].previousTarget]
          /\ rollback' = [rollback EXCEPT ![p].pc = "nginx"]
  /\ UNCHANGED <<current, previous, budget>>
  /\ othersUnchangedByRollback

\* lines 361-369: writeConfig (nginx -t, reload) and, for node, pm2 restart
rollbackReloadOutcomes(project, canFail) ==
  IF project.runtime = "node" /\ project.runtimePort = 0 /\ project.port = 0
  THEN {"runtimePort is required for node runtime"}
  ELSE {"ok"} \cup (IF canFail THEN {CommandFailed} ELSE {})

RollbackReload(p) ==
  /\ RollbackAt(p, "nginx")
  /\ \E out \in rollbackReloadOutcomes(rollback[p].project, budget.events > 0) :
       /\ rollback' = [rollback EXCEPT ![p] = rollbackThrows(rollback[p], out)]
       /\ budget' = IF out = CommandFailed THEN spend(budget, "events") ELSE budget
  /\ UNCHANGED <<current, previous, deployLink>>
  /\ othersUnchangedByRollback

\* sendError: the error's statusCode when it has one (0: none), else the default
sendError(statusCode, defaultStatus) ==
  IF statusCode /= 0 THEN statusCode ELSE defaultStatus

RollbackDefaultStatus == 400
HttpOk == 200

\* POST /api/projects/:projectId/rollback: the status of the response, given
\* how rollbackProject ended (its errors carry no statusCode)
rollbackResponse(result) ==
  IF result = "ok" THEN HttpOk ELSE sendError(0, RollbackDefaultStatus)

(***************************************************************************)
(* Changes of project records from outside the engine.                     *)
(***************************************************************************)
\* PATCH /api/projects/:projectId with a deployPath: resolveDeployPath accepts
\* every path that has NGINX_ROOT as a string prefix
resolveDeployPathAccepts(deployPath) == deployPath \in {"inside", "sibling"}

PatchDeployPath(p, deployPath) ==
  /\ budget.patches > 0
  /\ p \in DOMAIN projects
  /\ resolveDeployPathAccepts(deployPath)
  /\ projects[p].deployPath /= deployPath
  /\ projects' = [projects EXCEPT ![p].deployPath = deployPath]
  /\ budget' = spend(budget, "patches")
  /\ UNCHANGED <<config, sideVars, depFile, index, call, engineVars, linkVars, spawned,
                 rollback, finished>>

\* the project's deploy-config.json stops being readable (removed from disk or
\* left unparsable): from then on getProject's catch returns null
RemoveProject(p) ==
  /\ budget.events > 0
  /\ p \in DOMAIN projects
  /\ projects' = Drop(projects, p)
  /\ budget' = spend(budget, "events")
  /\ UNCHANGED <<config, sideVars, depFile, index, call, engineVars, linkVars, spawned,
                 rollback, finished>>

(***************************************************************************)
(* Access to the project-scoped routes: every handler reads the project    *)
(* (the deployment routes read the deployment first) and goes on only with *)
(* what ensureProjectAccess returns.                                       *)
(***************************************************************************)
HttpNotFound == 404

\* req.user of an authenticated caller: the admin, the owner of a project and
\* a user who owns none
Users ==
  { [id |-> "admin", isAdmin |-> TRUE],
    [id |-> "u1", isAdmin |-> FALSE],
    [id |-> "u2", isAdmin |-> FALSE] }

ownsProject(project, user) == user.isAdmin \/ project.ownerId = user.id

AccessGranted == [status |-> HttpOk, error |-> Null, allowed |-> TRUE]
ProjectNotFound == [status |-> HttpNotFound, error |-> "Project not found", allowed |-> FALSE]
DeploymentNotFound ==
  [status |-> HttpNotFound, error |-> "Deployment not found", allowed |-> FALSE]

\* ensureProjectAccess that checks only that the project exists
ensureProjectAccessWithoutOwner(projectId, user) ==
  IF projectId \notin DOMAIN projects THEN ProjectNotFound ELSE AccessGranted

\* getProject and ensureProjectAccess: what the handler answers at once, or
\* that it goes on
ensureProjectAccess(projectId, user) ==
  IF projectId \notin DOMAIN projects THEN ProjectNotFound
  ELSE IF ~ownsProject(projects[projectId], user) THEN ProjectNotFound
  ELSE AccessGranted

\* the routes with :projectId, which all begin in the same way
ProjectEndpoints == {"get", "patch", "deploy", "listDeployments", "rollback"}
projectRoute(endpoint, projectId, user) == ensureProjectAccess(projectId, user)

\* the routes with :deploymentId: getDeployment, then the access check on the
\* project of the record
DeploymentEndpoints == {"getDeployment", "getLog"}
deploymentRoute(endpoint, deploymentId, user) ==
  IF ~hasDeployment(index, depFile, deploymentId) THEN DeploymentNotFound
  ELSE ensureProjectAccess(depFile[deploymentId].projectId, user)

\* POST /api/projects/:projectId/deploy (the handler's read of the project and
\* queueDeployment's own are taken as one)
DeployRoute(user, projectId, dryRun) ==
  /\ projectRoute("deploy", projectId, user).allowed
  /\ QueueDeployment(projectId, dryRun)

\* POST /api/projects/:projectId/rollback
RollbackRoute(user, projectId) ==
  /\ projectRoute("rollback", projectId, user).allowed
  /\ RollbackStart(projectId)

\* PATCH /api/projects/:projectId with a deployPath
PatchRoute(user, projectId, deployPath) ==
  /\ projectRoute("patch", projectId, user).allowed
  /\ PatchDeployPath(projectId, deployPath)

(***************************************************************************)
(* The engine as a whole.                                                  *)
(***************************************************************************)
\* A step that writes nothing but the call's own deployment record, its release
\* directory and the working tree, and reads nothing else but the index.
LocalPc(d) ==
  \/ call[d].pc = "writeRecord"
  \/ worker[d].pc \in {"start", "stepBegin"}
  \/ /\ worker[d].pc = "stepBody"
     /\ StepNames[worker[d].step] \in {"sync", "install", "test", "build", "release"}

\* The lowest deployment with a local step to take.
Eager(d) == LocalPc(d) /\ \A e \in DeploymentIds : LocalPc(e) => d <= e

\* No call has a local step to take.
Quiet == \A d \in DeploymentIds : ~LocalPc(d)

\* Every interleaving of the segments at the awaits where calls can affect each
\* other (queue, counter, index, project record, symlinks, terminal status).  A
\* local step is taken as soon as it is enabled, lowest deployment first: it
\* commutes with the steps of every other call, except that an index write of
\* another createDeployment can fall only before or after a run of local steps
\* and not inside it.
Next ==
  \/ \E user \in Users, p \in Projects, dryRun \in BOOLEAN :
       Quiet /\ DeployRoute(user, p, dryRun)
  \/ \E c \in DeploymentIds : Eager(c) /\ CreateDeploymentWriteRecord(c)
  \/ \E c \in DeploymentIds : Quiet /\ CreateDeploymentLoadIndex(c)
  \/ \E c \in DeploymentIds : Quiet /\ CreateDeploymentSaveIndex(c)
  \/ \E d \in DeploymentIds : Eager(d) /\ RunDeploymentStart(d)
  \/ \E d \in DeploymentIds : Quiet /\ RunDeploymentLoad(d)
  \/ \E d \in DeploymentIds : Eager(d) /\ StepBegin(d)
  \/ \E d \in DeploymentIds : (Eager(d) \/ Quiet) /\ StepBody(d)
  \/ \E d \in DeploymentIds : Eager(d) /\ ReleaseCopy(d)
  \/ \E d \in DeploymentIds : Quiet /\ ReleaseReadCurrent(d)
  \/ \E d \in DeploymentIds : Quiet /\ ReleaseRmPrevious(d)
  \/ \E d \in DeploymentIds : Quiet /\ ReleaseLinkPrevious(d)
  \/ \E d \in DeploymentIds : Quiet /\ ReleaseRmCurrent(d)
  \/ \E d \in DeploymentIds : Quiet /\ ReleaseLinkCurrent(d)
  \/ \E d \in DeploymentIds : Quiet /\ ReleaseRmDeploy(d)
  \/ \E d \in DeploymentIds : Quiet /\ ReleaseLinkDeploy(d)
  \/ \E d \in DeploymentIds : Quiet /\ Finish(d)
  \/ \E d \in DeploymentIds : Quiet /\ UpdateProjectAfterDeploy(d)
  \/ \E d \in DeploymentIds : Quiet /\ Catch(d)
  \/ \E d \in DeploymentIds : Quiet /\ Close(d)
  \/ \E user \in Users, p \in Projects : Quiet /\ RollbackRoute(user, p)
  \/ \E p \in Projects : Quiet /\ RollbackRmCurrent(p)
  \/ \E p \in Projects : Quiet /\ RollbackLinkCurrent(p)
  \/ \E p \in Projects : Quiet /\ RollbackLoadProject(p)
  \/ \E p \in Projects : Quiet /\ RollbackRmDeploy(p)
  \/ \E p \in Projects : Quiet /\ RollbackLinkDeploy(p)
  \/ \E p \in Projects : Quiet /\ RollbackReload(p)
  \/ \E user \in Users, p \in Projects, path \in {"inside", "sibling"} :
       Quiet /\ PatchRoute(user, p, path)
  \/ \E p \in Projects : Quiet /\ RemoveProject(p)

Spec == Init /\ [][Next]_vars

\* A step of the engine itself: one that uses up none of the requests and events
\* the environment may still produce.  Node runs every continuation whose await
\* has resolved, so such a step is not postponed for ever.
EngineStep == Next /\ budget' = budget

\* the environments in which a job can wait in the queue: one worker slot and a
\* queue bound above it
FairInit == Init /\ MAX_CONCURRENT < MAX_QUEUE_SIZE

FairSpec == FairInit /\ [][Next]_vars /\ WF_vars(EngineStep)

(***************************************************************************)
(* The project API: import and partial update of a project record, with    *)
(* the engine idle.                                                        *)
(***************************************************************************)
HttpCreated == 201
HttpBadRequest == 400
HttpServerError == 500

\* projectStore.getProject: the stored record with its env normalised
getProject(stored) == [stored EXCEPT !.env = normalizeStoredEnv(stored.env)]

\* presentEnv: what a read returns for the env of a record
presentEnv(envArray) ==
  LET kept == SelectSeq(envArray, LAMBDA entry : entry.key /= Null)
  IN [i \in 1..Len(kept) |->
        IF kept[i].isSecret
        THEN [key |-> kept[i].key, isSecret |-> TRUE, hasValue |-> kept[i].encrypted,
              value |-> Null]
        ELSE [key |-> kept[i].key, isSecret |-> FALSE,
              hasValue |-> kept[i].value \notin {Null, EmptyString},
              value |-> IF kept[i].value = Null THEN EmptyString ELSE kept[i].value]]

\* GET /api/projects/:projectId: presentProject(getProject(projectId)).env
readEnv(stored) == presentEnv(getProject(stored).env)

\* PATCH /api/projects/:projectId with an env list, for an admin: the status
\* answered and the record in deploy-config.json afterwards
patchProject(stored, envInput) ==
  LET existing == getProject(stored)
      validated == validateEnv(existing.env, envInput)
      storedEnv == formatEnvForStorage(existing.env, TRUE, validated.env)
  IN IF validated.error /= Null
     THEN [status |-> HttpBadRequest, error |-> validated.error, stored |-> stored]
     ELSE IF storedEnv.error /= Null
     THEN [status |-> HttpBadRequest, error |-> storedEnv.error, stored |-> stored]
     ELSE [status |-> HttpOk, error |-> Null,
           stored |-> [existing EXCEPT !.env = storedEnv.env]]

\* POST /api/projects/import with an env list, for an admin: validation with
\* no existing record, then saveProject's formatEnvForStorage([], env)
importProject(envInput) ==
  LET validated == validateEnv(<< >>, envInput)
      storedEnv == formatEnvForStorage(<< >>, TRUE, validated.env)
  IN IF validated.error /= Null
     THEN [status |-> HttpServerError, error |-> validated.error, env |-> << >>]
     ELSE IF storedEnv.error /= Null
     THEN [status |-> HttpServerError, error |-> storedEnv.error, env |-> << >>]
     ELSE [status |-> HttpCreated, error |-> Null, env |-> storedEnv.env]

\* the import handler: a project directory that exists is answered 409; on an
\* error the catch removes the project directory
ImportProject(p, envInput) ==
  /\ budget.events > 0
  /\ p \notin DOMAIN projects
  /\ LET result == importProject(envInput) IN
       projects' = IF result.status = HttpCreated
                   THEN Put(projects, p, [BaseProject EXCEPT !.env = result.env])
                   ELSE projects
  /\ budget' = spend(budget, "events")
  /\ UNCHANGED <<config, sideVars, depFile, index, call, engineVars, linkVars, spawned,
                 rollback, finished>>

\* the PATCH handler with an env list
PatchProjectEnv(p, envInput) ==
  /\ budget.events > 0
  /\ p \in DOMAIN projects
  /\ projects' = [projects EXCEPT ![p] = patchProject(projects[p], envInput).stored]
  /\ budget' = spend(budget, "events")
  /\ UNCHANGED <<config, sideVars, depFile, index, call, engineVars, linkVars, spawned,
                 rollback, finished>>

\* the engine's updateProject after deployment d of project p (runDeployment,
\* line 331), on its own
StoreDeployResult(p, d) ==
  /\ p \in DOMAIN projects
  /\ projects[p].lastDeploy < d
  /\ projects' = [projects EXCEPT
                    ![p] = mergeProject(projects[p],
                             [lastDeploy |-> d, lastCommit |-> "4f2a9c1",
                              runtimePort |-> 0])]
  /\ UNCHANGED <<config, sideVars, depFile, index, call, engineVars, linkVars, spawned,
                 rollback, budget, finished>>

\* deployPath values a request can carry
DeployPathRequests ==
  {"/var/www/site", "site", "/var/www2/site", "/etc/passwd", "../../etc/passwd"}

\* path.resolve of the candidate (an absolute path as it is, a relative one
\* joined to NGINX_ROOT = /var/www), as the kind of path it yields:
\* "inside", "sibling" or "outside" (nothing of NGINX_ROOT is a prefix of it)
resolvedKind(requestedPath) ==
  CASE requestedPath \in {"/var/www/site", "site"} -> "inside"
    [] requestedPath = "/var/www2/site" -> "sibling"
    [] OTHER -> "outside"

\* PATCH with a deployPath, for an admin: validateProjectPayload calls
\* resolveDeployPath, whose throw the handler's catch answers with 400
patchDeployPath(stored, requestedPath) ==
  IF ~resolveDeployPathAccepts(resolvedKind(requestedPath))
  THEN [status |-> HttpBadRequest, error |-> "Deploy path must be inside the server root",
        stored |-> stored]
  ELSE [status |-> HttpOk, error |-> Null,
        stored |-> [getProject(stored) EXCEPT !.deployPath = resolvedKind(requestedPath)]]

PatchProjectDeployPath(p, requestedPath) ==
  /\ budget.events > 0
  /\ p \in DOMAIN projects
  /\ projects' = [projects EXCEPT
                    ![p] = patchDeployPath(projects[p], requestedPath).stored]
  /\ budget' = spend(budget, "events")
  /\ UNCHANGED <<config, sideVars, depFile, index, call, engineVars, linkVars, spawned,
                 rollback, finished>>

\* buildOutput values a request can carry (Null: empty or blank)
BuildOutputRequests == {"build", "dist", "../../etc", Null}

\* path.resolve(repoPath, buildOutput) is the repo root or below it
withinRepo(buildOutput) == buildOutput \in {"build", "dist"}

\* PATCH with a buildOutput, for an admin: validateProjectPayload takes every
\* non-empty string (coerceString with required)
patchBuildOutput(stored, buildOutput) ==
  IF buildOutput = Null
  THEN [status |-> HttpBadRequest, error |-> "buildOutput is required", stored |-> stored]
  ELSE [status |-> HttpOk, error |-> Null,
        stored |-> [getProject(stored) EXCEPT !.buildOutput = buildOutput]]

PatchProjectBuildOutput(p, buildOutput) ==
  /\ budget.events > 0
  /\ p \in DOMAIN projects
  /\ projects' = [projects EXCEPT
                    ![p] = patchBuildOutput(projects[p], buildOutput).stored]
  /\ budget' = spend(budget, "events")
  /\ UNCHANGED <<config, sideVars, depFile, index, call, engineVars, linkVars, spawned,
                 rollback, finished>>

\* records a project can hold before the first request
EnvInitialProjects == {BaseProject, [BaseProject EXCEPT !.env = << >>]}

EnvInit ==
  /\ config = [MAX_CONCURRENT_DEPLOYS |-> 0, MAX_QUEUE_SIZE |-> 0]
  /\ budget = [calls |-> 0, events |-> MaxPatches, dryRuns |-> 0, patches |-> 0]
  /\ queue = << >>
  /\ active = 0
  /\ \/ projects = << >>
     \/ projects \in [Projects -> EnvInitialProjects]
  /\ depFile = << >>
  /\ index = << >>
  /\ call = [c \in DeploymentIds |-> IdleCall]
  /\ worker = [d \in DeploymentIds |-> IdleWorker]
  /\ current = [p \in Projects |-> NoLink]
  /\ previous = [p \in Projects |-> NoLink]
  /\ deployLink = [p \in Projects |-> NoLink]
  /\ releases = {}
  /\ spawned = {}
  /\ rollback = [p \in Projects |-> IdleRollback]
  /\ appended = << >>
  /\ dispatched = << >>
  /\ finished = << >>
  /\ child = << >>
  /\ log = << >>
  /\ storeCall = [caller \in StoreCallers |-> IdleStoreCall]
  /\ vault = IdleVault
  /\ observed = [d \in DeploymentIds |-> NoSnapshot]
  /\ host = IdleHost

EnvNext ==
  \/ \E p \in Projects, envInput \in EnvInputs : ImportProject(p, envInput)
  \/ \E p \in Projects, envInput \in EnvInputs : PatchProjectEnv(p, envInput)
  \/ \E p \in Projects, d \in DeploymentIds : StoreDeployResult(p, d)
  \/ \E p \in Projects, requestedPath \in DeployPathRequests :
       PatchProjectDeployPath(p, requestedPath)
  \/ \E p \in Projects, buildOutput \in BuildOutputRequests :
       PatchProjectBuildOutput(p, buildOutput)

EnvSpec == EnvInit /\ [][EnvNext]_vars

(***************************************************************************)
(* The deployment log: runCommand's data handlers and redactText.  A text  *)
(* is a sequence of symbols; a key and a secret value are texts of two     *)
(* symbols each, so that a chunk boundary can fall inside them.            *)
(***************************************************************************)
\* longest output of one subprocess, in symbols
MaxOutputLen == 5

Space == " "
Equals == "="
Redacted == "[redacted]"

\* the text of an env key and of a decrypted secret value
keyText(key) == IF key = "API_KEY" THEN <<"API_", "KEY">> ELSE <<key>>
valueText(plaintext) == IF plaintext = "s3cr3t" THEN <<"s3c", "r3t">> ELSE <<plaintext>>

\* what a subprocess can print
LogAlphabet == {"API_", "KEY", Equals, "s3c", "r3t", Space}
Outputs == SeqsUpTo(LogAlphabet, MaxOutputLen)

\* buildEnvMaps: secretKeys, in the order of the entries
secretKeyList(envEntries) ==
  LET secrets == SelectSeq(envEntries, LAMBDA entry : entry.key /= Null /\ entry.isSecret)
  IN [i \in 1..Len(secrets) |-> secrets[i].key]

\* the pattern key=([^\s]+) matches at position i of text
matchesAt(text, i, key) ==
  /\ i + Len(key) + 1 <= Len(text)
  /\ SubSeq(text, i, i + Len(key) - 1) = key
  /\ text[i + Len(key)] = Equals
  /\ text[i + Len(key) + 1] /= Space

\* the end of the longest run of non-whitespace symbols that starts at j
RECURSIVE tokenEnd(_, _)
tokenEnd(text, j) ==
  IF j < Len(text) /\ text[j + 1] /= Space THEN tokenEnd(text, j + 1) ELSE j

\* text.replace(pattern, `${key}=[redacted]`) with the g flag, from position i on
RECURSIVE replaceFrom(_, _, _, _)
replaceFrom(text, i, key, result) ==
  IF i > Len(text) THEN result
  ELSE IF matchesAt(text, i, key)
  THEN replaceFrom(text, tokenEnd(text, i + Len(key) + 1) + 1, key,
                   result \o key \o <<Equals, Redacted>>)
  ELSE replaceFrom(text, i + 1, key, Append(result, text[i]))

\* redactText from key k of keys on: one replace per key
RECURSIVE redactFrom(_, _, _)
redactFrom(text, keys, k) ==
  IF k > Len(keys) THEN text
  ELSE redactFrom(replaceFrom(text, 1, keyText(keys[k]), << >>), keys, k + 1)

\* redactText(text, keys)
redactText(text, keys) == IF Len(keys) = 0 THEN text ELSE redactFrom(text, keys, 1)

\* the redactKeys runDeployment passes to runCommand for project p
redactKeysOf(p) == secretKeyList(getProject(projects[p]).env)

\* child.stdout.on('data') and child.stderr.on('data'): the next n symbols the
\* subprocess printed arrive as one chunk, which write() redacts and appends
ChildData(p, n) ==
  /\ p \in DOMAIN projects
  /\ n \in 1..Len(child)
  /\ log' = log \o redactText(SubSeq(child, 1, n), redactKeysOf(p))
  /\ child' = SubSeq(child, n + 1, Len(child))
  /\ UNCHANGED <<config, queue, active, projects, depFile, index, call, worker,
                 linkVars, spawned, rollback, budget, appended, dispatched, finished,
                 storeCall, vault, observed, host>>

\* a subprocess of a deployment of project p1 has printed its output
LogInit ==
  /\ config = [MAX_CONCURRENT_DEPLOYS |-> 0, MAX_QUEUE_SIZE |-> 0]
  /\ budget = [calls |-> 0, events |-> 0, dryRuns |-> 0, patches |-> 0]
  /\ queue = << >>
  /\ active = 0
  /\ projects = [p \in Projects |-> BaseProject]
  /\ depFile = << >>
  /\ index = << >>
  /\ call = [c \in DeploymentIds |-> IdleCall]
  /\ worker = [d \in DeploymentIds |-> IdleWorker]
  /\ current = [p \in Projects |-> NoLink]
  /\ previous = [p \in Projects |-> NoLink]
  /\ deployLink = [p \in Projects |-> NoLink]
  /\ releases = {}
  /\ spawned = {}
  /\ rollback = [p \in Projects |-> IdleRollback]
  /\ appended = << >>
  /\ dispatched = << >>
  /\ finished = << >>
  /\ child \in Outputs
  /\ log = << >>
  /\ storeCall = [caller \in StoreCallers |-> IdleStoreCall]
  /\ vault = IdleVault
  /\ observed = [d \in DeploymentIds |-> NoSnapshot]
  /\ host = IdleHost

LogNext == \E p \in Projects, n \in 1..MaxOutputLen : ChildData(p, n)

LogSpec == LogInit /\ [][LogNext]_vars

(***************************************************************************)
(* projectStore.updateProject as the read-modify-write it is: getProject,  *)
(* then writeProject of the record computed from what was read.  The PATCH *)
(* handler and the end of runDeployment call it for the same project.      *)
(***************************************************************************)
\* { ...existing, ...updates, env: storedEnv } for updates without an env
updateProjectNext(existing, updates) ==
  [field \in DOMAIN existing |->
     IF field = "env" THEN formatEnvForStorage(existing.env, FALSE, << >>).env
     ELSE IF field \in DOMAIN updates THEN updates[field]
     ELSE existing[field]]

\* the fields a PATCH sets (validateProjectPayload's project)
PatchUpdates ==
  { [buildOutput |-> "dist"], [deployPath |-> "sibling"], [port |-> ConfiguredPort],
    [branch |-> "release", buildCommand |-> "make"] }

\* lines 327-330: the engine's projectUpdate as the object it is, with
\* runtimePort only when the worker's copy of the project has one
projectUpdateFields(update) ==
  IF update.runtimePort /= 0
  THEN [lastDeploy |-> update.lastDeploy, lastCommit |-> update.lastCommit,
        runtimePort |-> update.runtimePort]
  ELSE [lastDeploy |-> update.lastDeploy, lastCommit |-> update.lastCommit]

\* the PATCH handler after validation: it calls updateProject, which starts to
\* read the record
PatchCallsUpdate(updates) ==
  /\ storeCall["patch"].pc = "idle"
  /\ storeCall' = [storeCall EXCEPT !["patch"] =
                     [pc |-> "reading", updates |-> updates, next |-> << >>]]
  /\ UNCHANGED <<config, child, log, vault, observed, host, queue, active, projects, depFile,
                 index, call,
                 worker, linkVars, spawned, rollback, budget, appended, dispatched,
                 finished>>

\* runDeployment, line 331, for deployment d of a project deployed on port
EngineCallsUpdate(p, d, random) ==
  /\ storeCall["engine"].pc = "idle"
  /\ p \in DOMAIN projects
  /\ LET port == runtimePortOf(projects[p], random)
         project == projectWithPort(projects[p], FALSE, port)
         w == [IdleWorker EXCEPT !.project = project, !.commitHash = commitOf(FALSE)]
     IN storeCall' = [storeCall EXCEPT !["engine"] =
                        [pc |-> "reading",
                         updates |-> projectUpdateFields(projectUpdateOf(d, w)),
                         next |-> << >>]]
  /\ UNCHANGED <<config, child, log, vault, observed, host, queue, active, projects, depFile,
                 index, call,
                 worker, linkVars, spawned, rollback, budget, appended, dispatched,
                 finished>>

\* updateProject: getProject has resolved, next is computed, writeProject starts
UpdateProjectRead(caller, p) ==
  /\ storeCall[caller].pc = "reading"
  /\ p \in DOMAIN projects
  /\ storeCall' = [storeCall EXCEPT
                     ![caller].pc = "writing",
                     ![caller].next = updateProjectNext(getProject(projects[p]),
                                                        storeCall[caller].updates)]
  /\ UNCHANGED <<config, child, log, vault, observed, host, queue, active, projects, depFile,
                 index, call,
                 worker, linkVars, spawned, rollback, budget, appended, dispatched,
                 finished>>

\* writeProject: writeFile of the record computed at the read
UpdateProjectWrite(caller, p) ==
  /\ storeCall[caller].pc = "writing"
  /\ projects' = Put(projects, p, storeCall[caller].next)
  /\ storeCall' = [storeCall EXCEPT ![caller].pc = "done"]
  /\ UNCHANGED <<config, child, log, vault, observed, host, queue, active, depFile, index,
                 call,
                 worker, linkVars, spawned, rollback, budget, appended, dispatched,
                 finished>>

\* a project whose deployment has passed its last step, and a PATCH of it
StoreInit ==
  /\ config = [MAX_CONCURRENT_DEPLOYS |-> 0, MAX_QUEUE_SIZE |-> 0]
  /\ budget = [calls |-> 0, events |-> 0, dryRuns |-> 0, patches |-> 0]
  /\ queue = << >>
  /\ active = 0
  /\ projects \in [Projects -> InitialProjects]
  /\ depFile = << >>
  /\ index = << >>
  /\ call = [c \in DeploymentIds |-> IdleCall]
  /\ worker = [d \in DeploymentIds |-> IdleWorker]
  /\ current = [p \in Projects |-> NoLink]
  /\ previous = [p \in Projects |-> NoLink]
  /\ deployLink = [p \in Projects |-> NoLink]
  /\ releases = {}
  /\ spawned = {}
  /\ rollback = [p \in Projects |-> IdleRollback]
  /\ appended = << >>
  /\ dispatched = << >>
  /\ finished = << >>
  /\ child = << >>
  /\ log = << >>
  /\ storeCall = [caller \in StoreCallers |-> IdleStoreCall]
  /\ vault = IdleVault
  /\ observed = [d \in DeploymentIds |-> NoSnapshot]
  /\ host = IdleHost

StoreNext ==
  \/ \E updates \in PatchUpdates : PatchCallsUpdate(updates)
  \/ \E p \in Projects, d \in DeploymentIds, random \in RandomOffsets :
       EngineCallsUpdate(p, d, random)
  \/ \E caller \in StoreCallers, p \in Projects : UpdateProjectRead(caller, p)
  \/ \E caller \in StoreCallers, p \in Projects : UpdateProjectWrite(caller, p)

StoreSpec == StoreInit /\ [][StoreNext]_vars

(***************************************************************************)
(* The secrets codec (lib/secrets.js), byte by byte.  A payload is the     *)
(* sequence iv(12) || tag(16) || ciphertext; base64 carries it unchanged.  *)
(* AES-256-GCM under the derived key is taken as ideal: the keystream is a *)
(* function of the iv and the position, and byte j of the tag is a value   *)
(* that only the same iv and ciphertext produce.  encryptSecret and        *)
(* decryptFails above are this codec as the env layer sees it.             *)
(***************************************************************************)
MaxPlainLen == 2
IvLength == 12
TagLength == 16
ByteRange == 256
ReplacementChar == 65533

\* the characters of a plaintext, as code points: "a" and e-acute
CodePoints == {97, 233}
Plaintexts == SeqsUpTo(CodePoints, MaxPlainLen)

\* a byte of a payload; a tag byte carries what it authenticates
byte(v) == [v |-> v, mac |-> << >>, j |-> 0]
tagByte(iv, ct, j) == [v |-> 0, mac |-> <<iv, ct>>, j |-> j]

\* cipher.update(plaintext, 'utf8'): one byte below 128, two bytes below 2048
utf8Char(cp) == IF cp < 128 THEN <<byte(cp)>>
                ELSE <<byte(192 + (cp \div 64)), byte(128 + (cp % 64))>>

RECURSIVE utf8Encode(_)
utf8Encode(text) == IF text = << >> THEN << >>
                    ELSE utf8Char(Head(text)) \o utf8Encode(Tail(text))

\* decrypted.toString('utf8'): a malformed byte becomes U+FFFD
RECURSIVE utf8Decode(_)
utf8Decode(bytes) ==
  IF bytes = << >> THEN << >>
  ELSE LET b == bytes[1].v
       IN IF b < 128 THEN <<b>> \o utf8Decode(Tail(bytes))
          ELSE IF /\ b >= 194 /\ b < 224 /\ Len(bytes) >= 2
                  /\ bytes[2].v >= 128 /\ bytes[2].v < 192
               THEN <<(b - 192) * 64 + (bytes[2].v - 128)>> \o utf8Decode(Tail(Tail(bytes)))
               ELSE <<ReplacementChar>> \o utf8Decode(Tail(bytes))

\* crypto.randomBytes(12), two of its outcomes
Ivs == {[i \in 1..IvLength |-> byte(i)], [i \in 1..IvLength |-> byte(IvLength + i)]}

\* the GCM keystream byte at position i under the derived key and this iv
keystream(iv, i) == iv[((i - 1) % Len(iv)) + 1].v

cipherUpdate(iv, bytes) ==
  [i \in 1..Len(bytes) |-> byte((bytes[i].v + keystream(iv, i)) % ByteRange)]
decipherUpdate(iv, bytes) ==
  [i \in 1..Len(bytes) |-> byte((bytes[i].v + ByteRange - keystream(iv, i)) % ByteRange)]

\* cipher.getAuthTag(): the 16-byte tag of this iv and ciphertext
getAuthTag(iv, ct) == [j \in 1..TagLength |-> tagByte(iv, ct, j)]

\* decipher.setAuthTag(tag) with no authTagLength option: the lengths GCM allows
validTagLength(n) == n \in {4, 8, 12, 13, 14, 15, 16}

\* decipher.final(): the tag given is compared with as many bytes of the real one
tagVerifies(iv, ct, tag) == \A j \in 1..Len(tag) : tag[j] = getAuthTag(iv, ct)[j]

Thrown == [ok |-> FALSE, value |-> << >>]
Returned(value) == [ok |-> TRUE, value |-> value]

\* raw.subarray(start, end): clipped to the buffer, as Buffer does
subarray(raw, start, end) ==
  LET to == IF end < Len(raw) THEN end ELSE Len(raw)
  IN IF start >= to THEN << >> ELSE SubSeq(raw, start + 1, to)

\* encryptSecret(plaintext) with the iv randomBytes returned
encryptSecretBytes(masterKey, iv, plaintext) ==
  IF ~masterKey THEN Thrown
  ELSE LET encrypted == cipherUpdate(iv, utf8Encode(plaintext))
           tag == getAuthTag(iv, encrypted)
       IN Returned(iv \o tag \o encrypted)

\* decryptSecret(ciphertext)
decryptSecret(masterKey, raw) ==
  IF ~masterKey THEN Thrown
  ELSE LET iv == subarray(raw, 0, IvLength)
           tag == subarray(raw, IvLength, IvLength + TagLength)
           encrypted == subarray(raw, IvLength + TagLength, Len(raw))
       IN IF iv = << >> THEN Thrown
          ELSE IF ~validTagLength(Len(tag)) THEN Thrown
          ELSE IF ~tagVerifies(iv, encrypted, tag) THEN Thrown
          ELSE Returned(utf8Decode(decipherUpdate(iv, encrypted)))

\* a blob written by an earlier encryptSecret("a") under the master key
StoredBlob == encryptSecretBytes(TRUE, [i \in 1..IvLength |-> byte(i)], <<97>>).value

\* the ways a stored payload can differ from the one encryptSecret returned:
\* one byte replaced, the payload cut short, a byte appended
AlterationKinds == {"replace", "cut", "append"}
MaxPayloadLen == IvLength + TagLength + 2 * MaxPlainLen
alterPayload(raw, kind, i) ==
  IF kind = "replace" THEN [raw EXCEPT ![i].v = (raw[i].v + 1) % ByteRange]
  ELSE IF kind = "cut" THEN SubSeq(raw, 1, i - 1)
  ELSE Append(raw, byte(i))

codecUnchanged ==
  UNCHANGED <<config, child, log, storeCall, observed, host, queue, active, projects, depFile,
              index, call, worker, current, previous, deployLink, releases, spawned, rollback,
              budget, appended, dispatched, finished>>

\* a caller encrypts vault.plaintext
EncryptSecret(iv) ==
  /\ vault.pc = "idle"
  /\ LET out == encryptSecretBytes(vault.masterKey, iv, vault.plaintext)
     IN vault' = [vault EXCEPT !.pc = IF out.ok THEN "sealed" ELSE "encryptFailed",
                               !.raw = out.value]
  /\ codecUnchanged

\* the blob is changed where it is stored
AlterBlob(kind, i) ==
  /\ vault.pc = "sealed"
  /\ ~vault.altered
  /\ i <= Len(vault.raw)
  /\ vault' = [vault EXCEPT !.raw = alterPayload(vault.raw, kind, i), !.altered = TRUE]
  /\ codecUnchanged

\* a caller decrypts the blob
DecryptSecret ==
  /\ vault.pc \in {"stored", "sealed"}
  /\ vault' = [vault EXCEPT !.result = decryptSecret(vault.masterKey, vault.raw),
                            !.pc = IF vault.pc = "sealed" THEN "opened" ELSE "storedOpened"]
  /\ codecUnchanged

CodecInit ==
  /\ config = [MAX_CONCURRENT_DEPLOYS |-> 0, MAX_QUEUE_SIZE |-> 0]
  /\ budget = [calls |-> 0, events |-> 0, dryRuns |-> 0, patches |-> 0]
  /\ queue = << >>
  /\ active = 0
  /\ projects = [p \in Projects |-> BaseProject]
  /\ depFile = << >>
  /\ index = << >>
  /\ call = [c \in DeploymentIds |-> IdleCall]
  /\ worker = [d \in DeploymentIds |-> IdleWorker]
  /\ current = [p \in Projects |-> NoLink]
  /\ previous = [p \in Projects |-> NoLink]
  /\ deployLink = [p \in Projects |-> NoLink]
  /\ releases = {}
  /\ spawned = {}
  /\ rollback = [p \in Projects |-> IdleRollback]
  /\ appended = << >>
  /\ dispatched = << >>
  /\ finished = << >>
  /\ child = << >>
  /\ log = << >>
  /\ storeCall = [caller \in StoreCallers |-> IdleStoreCall]
  /\ observed = [d \in DeploymentIds |-> NoSnapshot]
  /\ host = IdleHost
  /\ \E masterKey \in BOOLEAN, plaintext \in Plaintexts, stored \in BOOLEAN :
       vault = [IdleVault EXCEPT !.masterKey = masterKey,
                                 !.plaintext = IF stored THEN <<97>> ELSE plaintext,
                                 !.raw = IF stored THEN StoredBlob ELSE << >>,
                                 !.pc = IF stored THEN "stored" ELSE "idle"]

CodecNext ==
  \/ \E iv \in Ivs : EncryptSecret(iv)
  \/ \E kind \in AlterationKinds, i \in 1..MaxPayloadLen : AlterBlob(kind, i)
  \/ DecryptSecret

CodecSpec == CodecInit /\ [][CodecNext]_vars

(***************************************************************************)
(* Properties.                                                             *)
(***************************************************************************)
statusOf(d) == IF d \in DOMAIN depFile THEN depFile[d].status ELSE Null

\* runDeployment(d) has been called by processQueue and processQueue's finally
\* block has not run yet
InProgress(d) == worker[d].pc \notin {"idle", "returned", "threw"}

\* processQueue's finally block has run for runDeployment(d)
HasLeft(d) == worker[d].pc \in {"returned", "threw"}

\* the worker is between the first and the last of the release step's rm and
\* symlink calls on previous, current and the deploy path
InSymlinkRewrite(d) ==
  worker[d].pc \in {"relRmPrevious", "relLinkPrevious", "relRmCurrent",
                    "relLinkCurrent", "relRmDeploy", "relLinkDeploy"}

\* no runDeployment and no rollbackProject of project p is in progress
Quiescent(p) ==
  /\ \A d \in DeploymentIds : worker[d].projectId = p => ~InProgress(d)
  /\ rollback[p].pc = "idle"

IsPrefix(s, t) == Len(s) <= Len(t) /\ \A i \in 1..Len(s) : s[i] = t[i]

positionIn(seq, d) == CHOOSE i \in 1..Len(seq) : seq[i] = d
occursIn(seq, d) == \E i \in 1..Len(seq) : seq[i] = d

\* C1: in every reachable state the number of running jobs plus the number of
\* waiting jobs is at most MAX_QUEUE_SIZE.
C1_QueueBound == Len(queue) + active <= MAX_QUEUE_SIZE

\* C2: a queueDeployment call that returned an error has left no deployment
\* record, no index entry and no job behind.
C2_ErrorLeavesNothing ==
  \A c \in DeploymentIds :
    call[c].pc \in {"rejected", "failed"} =>
      /\ c \notin DOMAIN depFile
      /\ c \notin DOMAIN index
      /\ ~occursIn(appended, c)

\* C3: no two workers of the same project are inside the release step's
\* symlink rewrite at the same time.
C3_OneWorkerInRewrite ==
  \A d, e \in DeploymentIds :
    (d /= e /\ worker[d].projectId = worker[e].projectId) =>
      ~(InSymlinkRewrite(d) /\ InSymlinkRewrite(e))

\* C4: whenever no deployment and no rollback of a project is in progress and
\* the project has a deployment with status success that was not a dry run, its
\* current symlink points to a release directory and the symlink at its deploy
\* path points to the same directory.
C4_LinksAgreeAtRest ==
  \A p \in Projects :
    ( /\ Quiescent(p)
      /\ \E d \in DOMAIN depFile :
           /\ depFile[d].projectId = p
           /\ depFile[d].status = "success"
           /\ ~depFile[d].dryRun )
    => /\ current[p] \in releases
       /\ deployLink[p] = current[p]

\* C5: once a deployment record is success or failed, no step changes its
\* status, finishedAt or error.
C5_TerminalImmutable ==
  [][\A d \in DOMAIN depFile :
       depFile[d].status \in {"success", "failed"} =>
         /\ depFile'[d].status = depFile[d].status
         /\ depFile'[d].finishedAt = depFile[d].finishedAt
         /\ depFile'[d].error = depFile[d].error]_vars

\* C6: a dispatched deployment whose runDeployment call is over (nothing will
\* write its record again) has status success or failed.
C6_LeftMeansTerminal ==
  \A d \in DeploymentIds : HasLeft(d) => statusOf(d) \in {"success", "failed"}

\* C7: a deployment of a project with a secret that does not decrypt ends
\* failed, and it spawned nothing, created no release and changed no symlink.
C7_UndecryptableFails ==
  \A d \in DeploymentIds :
    ( /\ HasLeft(d)
      /\ worker[d].projectId \in DOMAIN projects
      /\ buildEnvMapsThrows(projects[worker[d].projectId].env) )
    => /\ statusOf(d) = "failed"
       /\ d \notin spawned
       /\ d \notin releases
       /\ current[worker[d].projectId] = NoLink
       /\ previous[worker[d].projectId] = NoLink
       /\ deployLink[worker[d].projectId] = NoLink

\* C8: the number of pipelines in progress never exceeds MAX_CONCURRENT (at
\* least 1), and the active counter equals the number of runDeployment calls in
\* progress and is never negative.
C8_ActiveCountsWorkers ==
  /\ MAX_CONCURRENT >= 1
  /\ active >= 0
  /\ active <= MAX_CONCURRENT
  /\ active = Cardinality({d \in DeploymentIds : InProgress(d)})

\* C8 witness: a pipeline threw, the counter was decremented for it, and the
\* pipelines in progress now fill every slot while a job waits.
C8_Witness ==
  /\ \E d \in DeploymentIds : worker[d].pc = "threw"
  /\ active = MAX_CONCURRENT
  /\ Len(queue) > 0

\* C9: the sequence of dispatched jobs is always a prefix of the sequence of
\* jobs appended to the queue, and what is appended but not dispatched is what
\* waits in the queue.
C9_DispatchIsPrefix ==
  /\ IsPrefix(dispatched, appended)
  /\ appended = dispatched \o jobIds(queue)

\* C9 witness: two jobs waited behind a running one and the first of the two
\* has been dispatched while the second still waits.
C9_Witness ==
  /\ Len(dispatched) = 2
  /\ Len(appended) = 3
  /\ Len(queue) = 1

\* C10: of two deployments of the same project that both reached a terminal
\* status, the one dispatched first reached it first.
C10_CompletionFollowsDispatch ==
  \A d, e \in DeploymentIds :
    ( /\ occursIn(finished, d) /\ occursIn(finished, e)
      /\ occursIn(dispatched, d) /\ occursIn(dispatched, e)
      /\ worker[d].projectId = worker[e].projectId
      /\ positionIn(dispatched, d) < positionIn(dispatched, e) )
    => positionIn(finished, d) < positionIn(finished, e)

\* the steps recorded on deployment d's record
stepsOf(d) == IF d \in DOMAIN depFile THEN depFile[d].steps ELSE << >>

\* C11: on every deployment record a step is recorded only when the step
\* before it is recorded success, at most one step is recorded running, and
\* every recorded step is running, success or failed.
C11_StepsInOrder ==
  \A d \in DeploymentIds :
    /\ \A i \in 2..NumSteps :
         StepNames[i] \in DOMAIN stepsOf(d) =>
           /\ StepNames[i - 1] \in DOMAIN stepsOf(d)
           /\ stepsOf(d)[StepNames[i - 1]].status = "success"
    /\ Cardinality({n \in DOMAIN stepsOf(d) : stepsOf(d)[n].status = "running"}) <= 1
    /\ \A n \in DOMAIN stepsOf(d) :
         stepsOf(d)[n].status \in {"running", "success", "failed"}

\* C12: when a step of a deployment is recorded failed, no later step is
\* recorded or started, and once runDeployment is over the deployment is failed
\* with the error message recorded on that step.
C12_FailedStepEndsDeployment ==
  \A d \in DeploymentIds :
    \A i \in 1..NumSteps :
      ( /\ StepNames[i] \in DOMAIN stepsOf(d)
        /\ stepsOf(d)[StepNames[i]].status = "failed" )
      => /\ \A j \in (i + 1)..NumSteps : StepNames[j] \notin DOMAIN stepsOf(d)
         /\ worker[d].step = i
         /\ worker[d].pc \in {"catch", "close", "returned"}
         /\ HasLeft(d) =>
              /\ depFile[d].status = "failed"
              /\ depFile[d].error = stepsOf(d)[StepNames[i]].error

\* C13: a dry-run deployment spawns no subprocess, creates no release
\* directory, is the target of no symlink and is not the deployment the project
\* record names as its last deploy.
C13_DryRunLeavesNoTrace ==
  \A d \in DOMAIN depFile :
    depFile[d].dryRun =>
      /\ d \notin spawned
      /\ d \notin releases
      /\ \A p \in Projects :
           /\ current[p] /= d
           /\ previous[p] /= d
           /\ deployLink[p] /= d
           /\ p \in DOMAIN projects => projects[p].lastDeploy /= d

\* C14: when rollbackProject returns without an error, current and the symlink
\* at the deploy path both point to the target that previous had when the
\* rollback started.
C14_RollbackRestoresPrevious ==
  [][\A p \in Projects :
       (rollback[p].pc = "nginx" /\ rollback'[p].result = "ok") =>
         /\ current'[p] = rollback'[p].previousTarget
         /\ deployLink'[p] = rollback'[p].previousTarget]_vars

HasPromoted(d) ==
  /\ ~worker[d].dryRun
  /\ \/ worker[d].step > ReleaseStep
     \/ worker[d].step = ReleaseStep /\ worker[d].pc \in {"relRmDeploy", "relLinkDeploy"}

\* C16: once two deployments of a project have promoted their releases to
\* current and nothing of the project is in progress, the project's previous
\* symlink exists; and previous, when it exists, points to a release directory.
C16_PreviousAfterSecondPromotion ==
  \A p \in Projects :
    /\ (\E d, e \in DeploymentIds :
          /\ Quiescent(p)
          /\ d /= e
          /\ worker[d].projectId = p /\ worker[e].projectId = p
          /\ HasPromoted(d) /\ HasPromoted(e))
       => previous[p] /= NoLink
    /\ previous[p] /= NoLink => previous[p] \in releases


\* the keys with a plain entry in what a read of the record returns
plainKeysRead(stored) ==
  { readEnv(stored)[i].key : i \in { j \in 1..Len(readEnv(stored)) :
        ~readEnv(stored)[j].isSecret } }

\* C17: a key that is stored as a secret entry is not returned as a plain entry
\* by a read after the next import, partial update or engine update, whatever
\* env list the request carries.
C17_SecretStaysSecret ==
  [][\A p \in (DOMAIN projects) \cap (DOMAIN projects') :
       secretKeysOf(projects[p].env) \cap plainKeysRead(projects'[p]) = {}]_vars

\* the request has an entry with isSecret false for a key stored as secret
asksDowngrade(stored, envInput) ==
  \E i \in 1..Len(envInput) :
    /\ envInput[i].isSecret = "false"
    /\ envInput[i].key \in secretKeysOf(stored.env)

\* C18: a partial update whose env list has an entry with isSecret false for a
\* key currently stored as secret is answered 400 and leaves the stored
\* record as it was.
C18_DowngradeRejected ==
  \A p \in DOMAIN projects : \A envInput \in EnvInputs :
    asksDowngrade(projects[p], envInput) =>
      /\ patchProject(projects[p], envInput).status = HttpBadRequest
      /\ patchProject(projects[p], envInput).stored = projects[p]

\* C19: in every stored project record no two env entries have the same key.
C19_EnvKeysUnique ==
  \A p \in DOMAIN projects :
    \A i, j \in 1..Len(projects[p].env) :
      projects[p].env[i].key = projects[p].env[j].key => i = j

\* C20: in every record on disk each secret entry carries an encryptedValue
\* (an AES-GCM blob) and no value, and each plain entry carries a value and no
\* encryptedValue, after imports, partial updates and the engine's update.
C20_NoCleartextOnDisk ==
  \A p \in DOMAIN projects :
    \A i \in 1..Len(projects[p].env) :
      LET entry == projects[p].env[i] IN
        IF entry.isSecret
        THEN entry.encrypted /\ entry.blob /= NoBlob /\ entry.value = Null
        ELSE ~entry.encrypted /\ entry.blob = NoBlob /\ entry.value /= Null

\* a record written by a partial update and then by the engine, with a secret
\* encrypted from a value of the request next to a plain entry
C20_Witness ==
  \E p \in DOMAIN projects :
    /\ projects[p].lastDeploy > 0
    /\ \E i, j \in 1..Len(projects[p].env) :
         /\ projects[p].env[i].isSecret
         /\ projects[p].env[i].blob.text \in EnvValues
         /\ ~projects[p].env[j].isSecret
         /\ projects[p].env[j].value \in EnvValues


\* text has the symbols of part next to each other, in order
containsText(text, part) ==
  \E i \in 1..(Len(text) - Len(part) + 1) : SubSeq(text, i, i + Len(part) - 1) = part

\* the decrypted values of the project's secret entries
secretValuesOf(p) ==
  { getProject(projects[p]).env[i].blob.text :
      i \in { j \in 1..Len(projects[p].env) : getProject(projects[p]).env[j].isSecret } }

\* C21: no decrypted secret value of the project is in the deployment log,
\* whatever the subprocess printed and however its output was split in chunks.
C21_NoSecretInLog ==
  \A p \in DOMAIN projects : \A plaintext \in secretValuesOf(p) :
    ~containsText(log, valueText(plaintext))


\* the commands the install, test, build and runtime steps hand to the shell
\* for a project (Null: the step runs none)
commandsRun(project, repoHasPackageJson) ==
  [install |-> installCommandOf(project, repoHasPackageJson),
   test |-> testCommandOf(project),
   build |-> buildCommandOf(project),
   start |-> startCommandOf(project)]

\* project-level command fields a record can hold
CommandChoices == {Null, "npm run build", "curl https://x.sh | sh"}

withCommands(project, cmds) ==
  [project EXCEPT !.installCommand = cmds.install, !.testCommand = cmds.test,
                  !.buildCommand = cmds.build, !.startCommand = cmds.start]

\* the commands of a project that is not the admin's are those of its template,
\* whatever its own command fields hold
templateCommandsOnly(project) ==
  \A cmds \in [install : CommandChoices, test : CommandChoices,
               build : CommandChoices, start : CommandChoices] :
    \A repoHasPackageJson \in BOOLEAN :
      \A templateId \in (DOMAIN commandTemplates) \cup {project.templateId} :
        LET owned == [project EXCEPT !.templateId = templateId]
            template == getTemplate(templateId)
        IN /\ commandsRun(withCommands(owned, cmds), repoHasPackageJson)
                = commandsRun(owned, repoHasPackageJson)
           /\ commandsRun(owned, repoHasPackageJson)
                = [install |-> template.installCommand, test |-> template.testCommand,
                   build |-> template.buildCommand, start |-> template.startCommand]

\* queueDeployment admitted call c: it went on to createDeployment
Admitted(c) == call[c].pc \notin {"unused", "rejected"}

\* C22: a project whose owner is not the admin runs the commands of its
\* template whatever its own command fields are, and when it has no valid
\* template none of its deployments is admitted or spawns a subprocess.
C22_TemplateCommandsOnly ==
  \A p \in DOMAIN projects :
    projects[p].ownerId /= ADMIN_OWNER_ID =>
      /\ templateCommandsOnly(projects[p])
      /\ ~hasTemplate(projects[p].templateId) =>
           \A c \in DeploymentIds :
             call[c].projectId = p => ~Admitted(c) /\ c \notin spawned


\* Math.floor(Math.random() * 1000) is below PortSpan
PortSpan == 1000

\* C23: after a successful real deployment of a node-runtime project that had
\* no runtimePort, the stored record has a runtimePort in [4000, 5000),
\* whatever the project's other fields are.
C23_RuntimePortInRange ==
  \A d \in DeploymentIds :
    ( /\ HasLeft(d)
      /\ statusOf(d) = "success"
      /\ worker[d].error = Null
      /\ ~worker[d].dryRun
      /\ worker[d].projectId \in DOMAIN projects
      /\ projects[worker[d].projectId].runtime = "node" )
    => projects[worker[d].projectId].runtimePort \in PortBase..(PortBase + PortSpan - 1)


\* C24: a partial update whose deployPath resolves to a path that is not
\* NGINX_ROOT or below it is answered 400 and leaves the stored record as it was.
C24_OutsideDeployPathRejected ==
  \A p \in DOMAIN projects : \A requestedPath \in DeployPathRequests :
    ensureDeployPathWithinRootThrows(resolvedKind(requestedPath)) =>
      /\ patchDeployPath(projects[p], requestedPath).status = HttpBadRequest
      /\ patchDeployPath(projects[p], requestedPath).stored = projects[p]

\* C25: a partial update whose buildOutput resolves outside the repo root is
\* answered 400 and leaves the stored record as it was.
C25_OutsideBuildOutputRejected ==
  \A p \in DOMAIN projects : \A buildOutput \in BuildOutputRequests \ {Null} :
    ~withinRepo(buildOutput) =>
      /\ patchBuildOutput(projects[p], buildOutput).status = HttpBadRequest
      /\ patchBuildOutput(projects[p], buildOutput).stored = projects[p]


\* the stored record of p holds every field of the updates
holdsUpdates(p, updates) ==
  \A field \in DOMAIN updates : projects[p][field] = updates[field]

\* C26: once a PATCH of a project and the engine's end-of-deployment update of
\* it have both completed, the stored record holds the PATCHed fields and the
\* engine's lastDeploy, lastCommit and runtimePort, however the two calls'
\* reads and writes were interleaved.
C26_NoLostProjectUpdate ==
  \A p \in DOMAIN projects :
    (\A caller \in StoreCallers : storeCall[caller].pc = "done") =>
      \A caller \in StoreCallers : holdsUpdates(p, storeCall[caller].updates)


\* C27: every deployment whose createDeployment call has returned has its entry
\* in the deployments index, however the createDeployment calls overlapped, so
\* getDeployment finds its record.
C27_CreatedMeansIndexed ==
  \A c \in DeploymentIds :
    call[c].pc = "queued" => c \in DOMAIN depFile /\ c \in DOMAIN index


\* the caller is neither an admin nor the owner of the stored project
isStranger(user, projectId) ==
  /\ projectId \in DOMAIN projects
  /\ ~user.isAdmin
  /\ projects[projectId].ownerId /= user.id

\* a project id for which nothing is stored
MissingProject == "p0"

\* C28: on each of the seven project-scoped routes a caller who is neither the
\* project's owner nor an admin is answered 404 'Project not found', the answer
\* for a project that does not exist, and the handler goes no further (it
\* calls neither the engine nor the stores).
C28_StrangerGetsNotFound ==
  \A user \in Users :
    /\ \A p \in DOMAIN projects : \A endpoint \in ProjectEndpoints :
         isStranger(user, p) =>
           /\ projectRoute(endpoint, p, user) = projectRoute(endpoint, MissingProject, user)
           /\ projectRoute(endpoint, p, user).status = HttpNotFound
           /\ ~projectRoute(endpoint, p, user).allowed
    /\ \A d \in DeploymentIds : \A endpoint \in DeploymentEndpoints :
         (hasDeployment(index, depFile, d) /\ isStranger(user, depFile[d].projectId)) =>
           /\ deploymentRoute(endpoint, d, user) = ProjectNotFound
           /\ ~deploymentRoute(endpoint, d, user).allowed

\* C28 witness: a deployment of a project owned by u1 is stored; its owner is
\* let through to its log and u2 is answered 404.
C28_Witness ==
  \E d \in DeploymentIds :
    /\ hasDeployment(index, depFile, d)
    /\ depFile[d].projectId \in DOMAIN projects
    /\ projects[depFile[d].projectId].ownerId = "u1"
    /\ deploymentRoute("getLog", d, [id |-> "u1", isAdmin |-> FALSE]).allowed
    /\ deploymentRoute("getLog", d, [id |-> "u2", isAdmin |-> FALSE]) = ProjectNotFound


\* the three parts of the codec's contract
roundTrips ==
  (vault.pc = "opened" /\ vault.masterKey /\ ~vault.altered) =>
    vault.result = Returned(vault.plaintext)
alteredFails ==
  (vault.pc = "opened" /\ vault.masterKey /\ vault.altered) => ~vault.result.ok
noKeyFails ==
  ~vault.masterKey =>
    /\ vault.pc \notin {"sealed", "opened"}
    /\ vault.pc = "storedOpened" => ~vault.result.ok

\* C29: with a master key decryptSecret(encryptSecret(s)) = s and decryptSecret
\* fails on a blob altered after encryption; with no master key every
\* encryptSecret and decryptSecret call fails.
C29_CodecContract == roundTrips /\ alteredFails /\ noKeyFails


\* the release step of deployment d returns in this step
releaseStepSucceeds(d) ==
  AtRelease(d, "relLinkDeploy") /\ worker'[d].step = ReleaseStep + 1

\* since the release step of d began, no other runDeployment of its project was
\* in progress or dispatched and no rollbackProject of it was in progress
noOverlap(d) ==
  /\ observed[d].alone
  /\ \A i \in (observed[d].dispatched + 1)..Len(dispatched) :
       worker[dispatched[i]].projectId /= worker[d].projectId

\* current and the deploy path point to the release of d, previous to what
\* current pointed to when the step began
releasePromotes(d) ==
  LET p == worker[d].projectId
  IN /\ d \in releases'
     /\ current'[p] = d
     /\ deployLink'[p] = d
     /\ previous'[p] = IF observed[d].current /= NoLink THEN observed[d].current
                       ELSE observed[d].previous

\* C30: when the release step of a non-dry-run deployment succeeds and no other
\* deployment or rollback of the project overlapped it, current and the deploy
\* path point to the new release directory and previous points to what current
\* pointed to when the step began, or is as it was if current did not exist.
C30_ReleasePromotes ==
  [][\A d \in DeploymentIds : (releaseStepSucceeds(d) /\ noOverlap(d)) => releasePromotes(d)]_vars

C30_Witness ==
  \E d \in DeploymentIds :
    LET p == worker[d].projectId
    IN /\ worker[d].step = ReleaseStep + 1
       /\ ~worker[d].dryRun
       /\ observed[d].alone
       /\ observed[d].dispatched = Len(dispatched)
       /\ observed[d].current \notin {NoLink, d}
       /\ current[p] = d
       /\ deployLink[p] = d
       /\ previous[p] = observed[d].current


portsOf(d, op) == {host.ops[d][i].port : i \in {j \in 1..Len(host.ops[d]) : host.ops[d][j].op = op}}

\* runDeployment(d) has read a project record with a runtimePort on it
loadsStoredPort(d) ==
  /\ worker[d].pc = "load"
  /\ worker'[d].pc = "stepBegin"
  /\ projects[worker[d].projectId].runtime = "node"
  /\ projects[worker[d].projectId].runtimePort /= 0

\* the real deployment d of a node-runtime project ends in success in this step
nodeDeploymentSucceeds(d) ==
  /\ worker[d].pc = "updateProject"
  /\ worker'[d].pc = "close"
  /\ ~worker[d].dryRun
  /\ worker[d].project.runtime = "node"

\* the three ports of deployment d agree as it passed them on
passesOnePort(d) ==
  /\ portsOf(d, "start") = {worker[d].runtimePort}
  /\ portsOf(d, "write") = {worker[d].runtimePort}
  /\ projects'[worker[d].projectId].runtimePort = worker[d].runtimePort
  /\ worker[d].runtimePort /= 0

\* C32: in a successful real deployment of a node-runtime project the PORT passed
\* to the start command, the port the project's nginx config proxies to and the
\* runtimePort on the stored record afterwards are one number, and it is the
\* runtimePort the record had before when it had one.
C32_OnePort ==
  [][\A d \in DeploymentIds :
       /\ loadsStoredPort(d) =>
            worker'[d].runtimePort = projects[worker[d].projectId].runtimePort
       /\ nodeDeploymentSucceeds(d) =>
            /\ passesOnePort(d)
            /\ host.conf[worker[d].projectId] = worker[d].runtimePort]_vars


\* deployment d removes what is at its deploy path, or links it, in this step
releaseTouchesDeployPath(d) ==
  /\ worker[d].step = ReleaseStep
  /\ worker[d].pc \in {"relRmDeploy", "relLinkDeploy"}
  /\ worker'[d].pc /= worker[d].pc

\* the rollback of project p removes what is at its deploy path, or links it
rollbackTouchesDeployPath(p) ==
  /\ rollback[p].pc \in {"rmDeploy", "linkDeploy"}
  /\ rollback'[p].pc /= rollback[p].pc

\* C33: the release step and rollbackProject remove and create something at the
\* deployPath they read from the project record only when it is inside
\* NGINX_ROOT; otherwise the link at the deploy path stays as it is.
C33_OnlyInsideRoot ==
  [][/\ \A d \in DeploymentIds :
          releaseTouchesDeployPath(d) =>
            ~ensureDeployPathWithinRootThrows(worker[d].project.deployPath)
     /\ \A p \in Projects :
          /\ rollbackTouchesDeployPath(p) =>
               ~ensureDeployPathWithinRootThrows(rollback[p].project.deployPath)
          /\ deployLink'[p] /= deployLink[p] =>
               \/ rollbackTouchesDeployPath(p)
               \/ \E d \in DeploymentIds :
                    worker[d].projectId = p /\ releaseTouchesDeployPath(d)]_vars

C33_Witness ==
  \E p \in DOMAIN projects :
    /\ projects[p].deployPath = "sibling"
    /\ rollback[p].pc = "idle"
    /\ rollback[p].result = "Deploy path must be inside the nginx root"
    /\ current[p] /= NoLink
    /\ deployLink[p] /= NoLink
    /\ deployLink[p] /= current[p]


\* positions of the operations `op` in what deployment d did to the host
positionsOf(d, op) == {i \in 1..Len(host.ops[d]) : host.ops[d][i].op = op}

\* what the nginx step of deployment d did, in order
nginxOpsOf(d) ==
  LET at == {i \in 1..Len(host.ops[d]) : host.ops[d][i].op \in {"write", "test", "reload"}}
      nth(k) == CHOOSE i \in at : Cardinality({j \in at : j < i}) = k - 1
  IN [k \in 1..Cardinality(at) |-> host.ops[d][nth(k)]]

NginxStep == CHOOSE i \in 1..NumSteps : StepNames[i] = "nginx"

\* C34: the nginx step of a real deployment writes the config, then runs the
\* test, then the reload; no reload follows a test that exited non-zero; a
\* non-zero exit of either fails the step; a deployment that ended in success
\* ran the reload exactly once, after it had switched current and deployPath.
C34_TestThenReload ==
  \A d \in DeploymentIds :
    LET ops == nginxOpsOf(d) IN
    /\ [i \in 1..Len(ops) |-> ops[i].op] \in
         {<< >>, <<"write", "test">>, <<"write", "test", "reload">>}
    /\ (Len(ops) = 3) => ops[2].code = 0
    /\ (\E i \in 1..Len(ops) : ops[i].code /= 0) =>
         /\ worker[d].error = CommandFailed
         /\ worker[d].step = NginxStep
    /\ (HasLeft(d) /\ worker[d].error = Null /\ ~worker[d].dryRun) =>
         /\ Cardinality(positionsOf(d, "reload")) = 1
         /\ \A r \in positionsOf(d, "reload") :
              /\ \E i \in positionsOf(d, "current") : i < r
              /\ \E i \in positionsOf(d, "deployPath") : i < r

C34_Witness ==
  /\ \E d \in DeploymentIds :
       /\ HasLeft(d) /\ worker[d].error = Null /\ ~worker[d].dryRun
       /\ Cardinality(positionsOf(d, "reload")) = 1
       /\ current[worker[d].projectId] = d
  /\ \E d \in DeploymentIds :
       /\ HasLeft(d)
       /\ worker[d].error = CommandFailed
       /\ Len(nginxOpsOf(d)) = 2
       /\ nginxOpsOf(d)[2].code = 1


\* the encryptedValue stored under key k in a record, NoBlob when there is none
storedBlob(stored, k) ==
  LET existingMap == envMapOf(getProject(stored).env)
  IN IF k \in DOMAIN existingMap /\ existingMap[k].encrypted
     THEN existingMap[k].blob ELSE NoBlob

\* entry i of the request is handled as a secret: it asks for it, or its key is
\* stored as a secret
secretAsked(stored, envInput, i) ==
  \/ envInput[i].isSecret = "true"
  \/ envInput[i].key \in secretKeysOf(getProject(stored).env)

\* what a successful update stores for the entries it took as secrets
secretsStoredAsAsked(stored, envInput) ==
  LET result == patchProject(stored, envInput)
      sanitized == validateEnv(getProject(stored).env, envInput).env
  IN result.status = HttpOk =>
       /\ Len(result.stored.env) = Len(envInput)
       /\ \A i \in 1..Len(envInput) :
            sanitized[i].isSecret =>
              /\ result.stored.env[i].key = envInput[i].key
              /\ result.stored.env[i].isSecret
              /\ result.stored.env[i].encrypted
              /\ result.stored.env[i].blob =
                   IF envInput[i].value /= Null THEN encryptSecret(envInput[i].value)
                   ELSE storedBlob(stored, envInput[i].key)
              /\ result.stored.env[i].blob /= NoBlob

stepsRecorded(record, s) ==
  {name \in DOMAIN record.steps : record.steps[name].status = s}

\* the last step a record has an entry for, in pipeline order
lastStepRecorded(record) ==
  StepNames[CHOOSE i \in 1..NumSteps :
              /\ StepNames[i] \in DOMAIN record.steps
              /\ \A j \in 1..NumSteps : StepNames[j] \in DOMAIN record.steps => j <= i]

\* C36: in every deployment record a status of success comes with all seven
\* steps recorded success, and a status of failed with exactly one step
\* recorded failed, which is the last step recorded and carries the record's
\* error.
C36_StatusMatchesSteps ==
  \A d \in DOMAIN depFile :
    LET record == depFile[d] IN
    /\ record.status = "success" =>
         stepsRecorded(record, "success") = {StepNames[i] : i \in 1..NumSteps}
    /\ record.status = "failed" =>
         /\ Cardinality(stepsRecorded(record, "failed")) = 1
         /\ \A name \in stepsRecorded(record, "failed") :
              /\ name = lastStepRecorded(record)
              /\ record.steps[name].error = record.error


\* deployment d failed in sync, install, test or build, or in the release step
\* at the output directory check
failedBeforePromotion(d) ==
  /\ worker[d].error /= Null
  /\ \/ worker[d].step < ReleaseStep
     \/ /\ worker[d].step = ReleaseStep
        /\ worker[d].error = "Build output directory not found"

\* a segment of deployment d runs and a live pointer or the releases change
changesLive(d) ==
  /\ worker'[d] /= worker[d]
  /\ <<current, previous, deployLink, releases>>' /= <<current, previous, deployLink, releases>>

\* C37: a deployment that fails in sync, install, test or build, or in the
\* release step before the output directory check passes, has changed none of
\* current, previous and deployPath and has created no release directory: only
\* segments of the release step after that check change them.
C37_EarlyFailureLeavesLive ==
  /\ [](\A d \in DeploymentIds :
          failedBeforePromotion(d) =>
            /\ d \notin releases
            /\ positionsOf(d, "current") = {}
            /\ positionsOf(d, "deployPath") = {})
  /\ [][\A d \in DeploymentIds :
          changesLive(d) =>
            /\ worker[d].step = ReleaseStep
            /\ worker[d].error = Null
            /\ ~worker[d].dryRun
            /\ worker[d].pc \in {"stepBody", "relRmPrevious", "relLinkPrevious",
                                 "relRmCurrent", "relLinkCurrent", "relRmDeploy",
                                 "relLinkDeploy"}
            /\ ~failedBeforePromotion(d)']_vars

C37_Witness ==
  \E d, e \in DeploymentIds :
    /\ worker[d].projectId = worker[e].projectId
    /\ HasLeft(e) /\ worker[e].error = Null /\ ~worker[e].dryRun
    /\ HasLeft(d) /\ ~worker[d].dryRun
    /\ worker[d].step = ReleaseStep
    /\ worker[d].error = "Build output directory not found"
    /\ current[worker[d].projectId] = e
    /\ d \notin releases


\* a rollbackProject call of project p that did not throw was in progress during
\* the release step of a real deployment d of p that ended without an error,
\* and nothing of p is in progress any more
rollbackOverlappedRelease(p, d) ==
  /\ worker[d].projectId = p
  /\ HasLeft(d)
  /\ ~worker[d].dryRun
  /\ worker[d].error = Null
  /\ observed[d].rolledBack
  /\ rollback[p].result = "ok"
  /\ Quiescent(p)

\* C38: once a rollbackProject call and a deployment of the same project whose
\* release step it overlapped have both finished, current and the deploy path
\* point to the same release directory and neither symlink is missing.
C38_OverlapLeavesLinksAgreeing ==
  \A p \in Projects : \A d \in DeploymentIds :
    rollbackOverlappedRelease(p, d) =>
      /\ current[p] /= NoLink
      /\ deployLink[p] /= NoLink
      /\ current[p] = deployLink[p]


\* a segment of rollbackProject for project p runs
rollbackMoves(p) == rollback'[p] /= rollback[p]

\* rollbackProject for project p returns without an error
rollbackReturns(p) == rollback[p].pc = "nginx" /\ rollback'[p].result = "ok"

\* C39: rollbackProject never changes the previous symlink, and when it returns
\* without an error current and the deploy path point where previous points,
\* which is where previous pointed when the call started: a second call with no
\* deployment in between therefore leaves the three links as the first left
\* them.
C39_RollbackIdempotent ==
  [][\A p \in Projects :
       /\ rollbackMoves(p) => previous'[p] = previous[p]
       /\ rollbackReturns(p) =>
            /\ previous'[p] = rollback'[p].previousTarget
            /\ current'[p] = previous'[p]
            /\ deployLink'[p] = previous'[p]]_vars


\* C40: the validator and the engine agree on deploy paths: a path that
\* resolveDeployPath accepts, and so every deployPath stored on a project, is
\* accepted by ensureDeployPathWithinRoot when a deployment is enqueued and
\* when it runs, sibling directories of NGINX_ROOT included.
C40_ValidatorAndEngineAgree ==
  /\ \A requestedPath \in DeployPathRequests :
       resolveDeployPathAccepts(resolvedKind(requestedPath)) =>
         ~ensureDeployPathWithinRootThrows(resolvedKind(requestedPath))
  /\ \A p \in DOMAIN projects :
       projects[p].deployPath /= Null =>
         ~ensureDeployPathWithinRootThrows(projects[p].deployPath)

====
